---- MODULE Spec2Model ----
(***************************************************************************)
(* Model of the ParadeDB / Elasticsearch benchmark harness:                *)
(*   src/scripts/benchmark_paradedb.py                                     *)
(*   src/scripts/elasticsearch_benchmark.py                                *)
(* The concurrent query runner (run_concurrent_queries and its nested      *)
(* worker_task), the psycopg2 connection pool it draws from, the clock it  *)
(* measures with and the per-query report written by main.                 *)
(*                                                                         *)
(* Time is counted in ticks of time.perf_counter(); every measured         *)
(* interval (one query, one parallel phase) spans at least one tick.       *)
(***************************************************************************)
EXTENDS Integers, Sequences, FiniteSets, Bags, TLC

\* ------------------------------------------------------------- bounds
MaxTransactions == 3
MaxConcurrency == 2
MaxTerms == 2
MaxFaults == 1
MaxSlack == 0
MaxAssignTransactions == 12
MaxAssignConcurrency == 5
MaxRenderIndex == 17
MaxSessionWorkers == 11
MaxLines == 4
BatchSize == 2
MaxCallWorkers == 2
MaxCalls == 2

\* ---------------------------------------------------------- the catalog
Systems == {"paradedb", "es"}

\* benchmark_paradedb.py query_configs has the keys 1..6, elasticsearch_benchmark.py 1..3
ParadeQueryTypes == 1..6
EsQueryTypes == 1..3

\* the identifiers a caller may pass: every catalogued one and one beyond
QueryTypeIds == 1..7

\* placeholder terms of the lists read from /config/benchmark_config.json
TermPool == <<"t1", "t2", "t3", "t4", "t5", "t6", "t7", "t8">>

ConfigTerms(len) == SubSeq(TermPool, 1, len)

\* the hard-coded term lists of the Elasticsearch catalog
EsTerms1 == <<"data", "information", "system", "service", "request", "report", "analysis", "record">>

EsTerms2 == <<"public data", "service request", "data analysis", "information system", "record management", "data processing", "service delivery", "information access">>

EsTerms3b == <<"public", "management", "processing", "delivery", "access", "collection", "storage", "retrieval">>

\* query_configs of the ParadeDB runner for a config file whose first, second and
\* third term list of a query type hold len, len+1 and len+2 terms
ParadeQueryConfigs(len) ==
  [q \in ParadeQueryTypes |->
     CASE q = 3 -> <<ConfigTerms(len), ConfigTerms(len + 1)>>
       [] q = 5 -> <<ConfigTerms(len), ConfigTerms(len + 1), ConfigTerms(len + 2)>>
       [] OTHER -> <<ConfigTerms(len)>>]

EsQueryConfigs ==
  [q \in EsQueryTypes |->
     CASE q = 1 -> <<EsTerms1>>
       [] q = 2 -> <<EsTerms2>>
       [] OTHER -> <<EsTerms1, EsTerms3b>>]

QueryConfigs(sys, len) == IF sys = "es" THEN EsQueryConfigs ELSE ParadeQueryConfigs(len)

\* ------------------------------------------------- pure parts of the runner
\* transactions_per_worker = (transactions + concurrency - 1) // concurrency
TransactionsPerWorkerFloor(t, c) == t \div c

TransactionsPerWorker(t, c) == (t + c - 1) \div c

MinAsMax(a, b) == IF a <= b THEN b ELSE a

Min(a, b) == IF a <= b THEN a ELSE b

\* start_idx = (worker_id - 1) * transactions_per_worker + 1
StartIdxOverlap(w, t, c) == (w - 1) * TransactionsPerWorker(t, c)

StartIdx(w, t, c) == (w - 1) * TransactionsPerWorker(t, c) + 1

\* end_idx = min(worker_id * transactions_per_worker, transactions)
EndIdxNoClamp(w, t, c) == w * TransactionsPerWorker(t, c)

EndIdx(w, t, c) == Min(w * TransactionsPerWorker(t, c), t)

\* range(start_idx, end_idx + 1)
WorkerRange(w, t, c) == StartIdx(w, t, c)..EndIdx(w, t, c)

\* term_idx = (i - 1) % len(terms); terms[term_idx] (Python lists are 0-based)
TermIdxOffByOne(i, len) == i % len

TermIdx(i, len) == (i - 1) % len

SelectTermFirst(terms, i) == terms[1]

SelectTerm(terms, i) == terms[TermIdx(i, Len(terms)) + 1]

\* the query rendered for iteration i: one term of each term list of the query type
RenderQuery(q, lists, i) ==
  [qt |-> q, terms |-> [k \in 1..Len(lists) |-> SelectTerm(lists[k], i)]]

\* avg_latency = total_latency / transactions if transactions > 0 else 0
\* (a fraction num/den; den = 0 stands for ZeroDivisionError)
AvgLatencyUnguarded(total, t) == [num |-> total, den |-> t]

AvgLatencyPerWorker(total, t) == [num |-> total, den |-> IF t > 1 THEN t - 1 ELSE 1]

AvgLatency(total, t) == IF t > 0 THEN [num |-> total, den |-> t] ELSE [num |-> 0, den |-> 1]

\* f"{x:.6f}" of a fraction of ticks: the nearest whole tick
Format6(r) == (2 * r.num + r.den) \div (2 * r.den)


\* ------------------------------------------------------------- state
VARIABLES
  system,                 \* which benchmark script runs
  query_type,             \* run_concurrent_queries(..., query_type, ...)
  transactions,           \* ... transactions
  concurrency,            \* ... concurrency
  query_configs,          \* the query catalog built at the top of the runner
  config,                 \* config = query_configs[query_type]: its term lists
  rpc,                    \* where the runner is
  start_time,             \* start_time = time.perf_counter()
  total_latency,
  completed_transactions,
  collected,              \* futures whose result() the coordinator has consumed
  result,                 \* what the runner returned: avg_latency, wall_time
  error,                  \* the exception the runner raised
  wpc,                    \* where each worker_task is
  held,                   \* whether the worker's `conn` is checked out of the pool
  cursor,                 \* the worker's local `cursor`: unbound, open or closed
  idx,                    \* the loop variable i of each worker
  q_start,                \* start_time of the query in flight (run_single_query)
  worker_time,
  worker_transactions,
  pending,                \* the exception travelling through the worker's finally
  pool,                   \* len(ThreadedConnectionPool._pool): the free connections
  pool_used,              \* the keys of ThreadedConnectionPool._used: who holds one
  pool_created,           \* connections the pool has opened so far
  pool_closed,            \* connections the pool has closed so far
  now,                    \* time.perf_counter()
  log,                    \* bag of the queries issued: worker, index, query
  measured,               \* sum of every latency measured by a worker
  failed_queries,         \* queries that failed and were swallowed by run_query
  faults,                 \* failures injected by the environment so far
  report,                 \* /tmp/query<n>_time.txt as main wrote it
  a_transactions, a_concurrency, a_ranges,        \* index assignment on its own
  r_system, r_query_type, r_lists, r_i, r_queries, \* query rendering on its own
  s_concurrency,          \* worker threads that share the requests session
  s_queue,                \* slots in the queue of the session's connection pool
  s_conn,                 \* where the connection of each worker's request came from
  m_system,               \* which script's main runs
  m_pc,                   \* the step main is about to take
  m_attempt,              \* attempt of the wait-for-ready loop
  m_tries,                \* connection attempts the wait-for-ready loop has made
  m_slept,                \* seconds the wait-for-ready loop has slept
  m_exit,                 \* exit status of the process (-1 while it runs)
  m_completed,            \* the stages that have returned successfully, in order
  m_failed,               \* the stages in which a call has failed
  m_files,                \* the result files in /tmp: absent, stale or written by this run
  m_queries,              \* warmup and benchmark runs started so far
  l_system,               \* which script's load_data runs
  l_lines,                \* the data file: the kind of each line
  l_expected,             \* expected_size
  l_run,                  \* how often the pipeline has been started on the file
  l_pc,                   \* where the pipeline is
  l_pos,                  \* lines read so far
  l_documents,            \* documents / bulk_data: the lines of the batch being filled
  l_count,                \* count / total_count
  l_store,                \* the lines held by the table / the index
  l_sent,                 \* the lines that were put into a request to the target store
  l_skipped,              \* the lines that were skipped and logged
  l_first,                \* records in the store when the first run had completed
  f_query,                \* query_type of the run whose result is written
  f_avg,                  \* avg_latency of the run result
  f_total,                \* total_time of the run result
  f_written,              \* /tmp/query<n>_time.txt exists
  f_content,              \* the characters of /tmp/query<n>_time.txt
  f_times,                \* what parse_time_file returned for it
  b_system,               \* which script's main runs its benchmark phase
  b_pc,                   \* where main is
  b_type,                 \* query_type of the loop main is in
  b_raised,               \* an exception is on its way out of main
  b_exit,                 \* the exit status of the process
  b_pool,                 \* benchmark_pool: none, open or closed
  b_runs,                 \* the runs of run_concurrent_queries that have returned
  b_results,              \* results['metrics']: where each query_<n> entry came from
  b_files,                \* /tmp/query<n>_time.txt: where its values came from
  b_json,                 \* /tmp/results.json: its entries and how often it was written
  k_system,               \* which script's workers send the queries
  k_concurrency,          \* the workers of the run
  k_calls,                \* the queries each worker has to run
  k_silent,               \* the queries that the database never answers
  k_idx,                  \* the query each worker is at
  k_call,                 \* each worker's network call: idle, waiting or done
  k_waited,               \* seconds the call in flight has been waiting
  k_tries,                \* how often the call in flight has been sent again
  k_failed,               \* calls that ended as failed
  k_rpc,                  \* the runner: running or returned
  p_loop,                 \* which polling loop runs
  p_pc,                   \* where the loop is: poll, sleep, ready, gaveup or raised
  p_attempt               \* the loop's `attempt` counter, where it keeps one

inputVars == <<system, query_type, transactions, concurrency, query_configs>>

runnerVars == <<config, rpc, start_time, total_latency, completed_transactions, collected, result, error>>

workerVars == <<wpc, held, cursor, idx, q_start, worker_time, worker_transactions, pending>>

poolVars == <<pool, pool_used, pool_created, pool_closed>>

ghostVars == <<log, measured, failed_queries, faults>>

assignVars == <<a_transactions, a_concurrency, a_ranges>>

renderVars == <<r_system, r_query_type, r_lists, r_i, r_queries>>

sessionVars == <<s_concurrency, s_queue, s_conn>>

loadVars == <<l_system, l_lines, l_expected, l_run, l_pc, l_pos, l_documents, l_count, l_store, l_sent, l_skipped, l_first>>

pollVars == <<p_loop, p_pc, p_attempt>>

callVars == <<k_system, k_concurrency, k_calls, k_silent, k_idx, k_call, k_waited, k_tries, k_failed, k_rpc>>

benchVars == <<b_system, b_pc, b_type, b_raised, b_exit, b_pool, b_runs, b_results, b_files, b_json>>

fileVars == <<f_query, f_avg, f_total, f_written, f_content, f_times>>

mainVars == <<m_system, m_pc, m_attempt, m_tries, m_slept, m_exit, m_completed, m_failed, m_files, m_queries>>

\* the variables of the concurrent runner
runVars == <<inputVars, runnerVars, workerVars, poolVars, ghostVars, now, report>>

\* the variables of the parts that are modelled on their own
sideVars == <<assignVars, renderVars, sessionVars, mainVars, loadVars, fileVars, benchVars, callVars, pollVars>>

exceptAssign == <<runVars, renderVars, sessionVars, mainVars, loadVars, fileVars, benchVars, callVars, pollVars>>

exceptRender == <<runVars, assignVars, sessionVars, mainVars, loadVars, fileVars, benchVars, callVars, pollVars>>

exceptSession == <<runVars, assignVars, renderVars, mainVars, loadVars, fileVars, benchVars, callVars, pollVars>>

exceptMain == <<runVars, assignVars, renderVars, sessionVars, loadVars, fileVars, benchVars, callVars, pollVars>>

exceptFile == <<runVars, assignVars, renderVars, sessionVars, mainVars, loadVars, benchVars, callVars, pollVars>>

exceptBench == <<runVars, assignVars, renderVars, sessionVars, mainVars, loadVars, fileVars, callVars, pollVars>>

exceptCall == <<runVars, assignVars, renderVars, sessionVars, mainVars, loadVars, fileVars, benchVars, pollVars>>

exceptPoll == <<runVars, assignVars, renderVars, sessionVars, mainVars, loadVars, fileVars, benchVars, callVars>>

exceptLoad == <<runVars, assignVars, renderVars, sessionVars, mainVars, fileVars, benchVars, callVars, pollVars>>

vars == <<runVars, sideVars>>

Workers == 1..concurrency

NoResult == [avg_latency |-> [num |-> 0, den |-> 0], wall_time |-> 0 - 1]

NoReport == [written |-> FALSE, average |-> 0, total |-> 0]

\* benchmark_pool = create_connection_pool(..., min_conn=concurrency, max_conn=concurrency * 2)
MinConn == concurrency

MaxConn == concurrency * 2

AssignIdle == a_transactions = 0 /\ a_concurrency = 0 /\ a_ranges = <<>>

RenderIdle == r_system = "" /\ r_query_type = 0 /\ r_lists = <<>> /\ r_i = 0 /\ r_queries = <<>>

SessionIdle == s_concurrency = 0 /\ s_queue = 0 /\ s_conn = <<>>

PollIdle == p_loop = "" /\ p_pc = "off" /\ p_attempt = 0

CallIdle ==
  /\ k_system = "" /\ k_concurrency = 0 /\ k_calls = 0 /\ k_silent = {} /\ k_idx = <<>>
  /\ k_call = <<>> /\ k_waited = <<>> /\ k_tries = <<>> /\ k_failed = 0 /\ k_rpc = "off"

NoJson == [state |-> "absent", entries |-> <<>>, writes |-> 0]

BenchIdle ==
  /\ b_system = "" /\ b_pc = "off" /\ b_type = 0 /\ b_raised = FALSE /\ b_exit = 0 - 1
  /\ b_pool = "none" /\ b_runs = <<>> /\ b_results = <<>> /\ b_files = <<>> /\ b_json = NoJson

NotParsed == [status |-> "unparsed", average |-> [num |-> 0, den |-> 1], total |-> [num |-> 0, den |-> 1]]

FileIdle ==
  /\ f_query = 0 /\ f_avg = [num |-> 0, den |-> 1] /\ f_total = [num |-> 0, den |-> 1]
  /\ f_written = FALSE /\ f_content = <<>> /\ f_times = NotParsed

LoadIdle ==
  /\ l_system = "" /\ l_lines = <<>> /\ l_expected = 0 /\ l_run = 0 /\ l_pc = "off"
  /\ l_pos = 0 /\ l_documents = <<>> /\ l_count = 0 /\ l_store = <<>> /\ l_sent = {}
  /\ l_skipped = {} /\ l_first = 0 - 1

MainIdle ==
  /\ m_system = "" /\ m_pc = "off" /\ m_attempt = 0 /\ m_tries = 0 /\ m_slept = 0
  /\ m_exit = 0 - 1 /\ m_completed = <<>> /\ m_failed = {} /\ m_files = <<>> /\ m_queries = 0

RunnerIdle ==
  /\ system = "" /\ query_type = 0 /\ transactions = 0 /\ concurrency = 0
  /\ query_configs = <<>> /\ config = <<>> /\ rpc = "off"
  /\ start_time = 0 /\ total_latency = 0 /\ completed_transactions = 0
  /\ collected = {} /\ result = NoResult /\ error = "none"
  /\ wpc = <<>> /\ held = <<>> /\ cursor = <<>> /\ idx = <<>> /\ q_start = <<>>
  /\ worker_time = <<>> /\ worker_transactions = <<>> /\ pending = <<>>
  /\ pool = 0 /\ pool_used = {} /\ pool_created = 0 /\ pool_closed = 0
  /\ now = 0 /\ log = EmptyBag /\ measured = 0 /\ failed_queries = 0 /\ faults = 0
  /\ report = NoReport

\* the state in which main calls run_concurrent_queries for a measured run
Init ==
  /\ system \in Systems
  /\ query_type \in QueryTypeIds
  /\ transactions \in 0..MaxTransactions
  /\ concurrency \in 1..MaxConcurrency
  /\ query_configs = QueryConfigs(system, MaxTerms)
  /\ config = <<>>
  /\ rpc = "called"
  /\ start_time = 0 /\ total_latency = 0 /\ completed_transactions = 0
  /\ collected = {} /\ result = NoResult /\ error = "none"
  /\ wpc = [w \in Workers |-> "idle"]
  /\ held = [w \in Workers |-> FALSE]
  /\ cursor = [w \in Workers |-> "unbound"]
  /\ idx = [w \in Workers |-> 0]
  /\ q_start = [w \in Workers |-> 0]
  /\ worker_time = [w \in Workers |-> 0]
  /\ worker_transactions = [w \in Workers |-> 0]
  /\ pending = [w \in Workers |-> "none"]
  /\ pool = IF system = "paradedb" THEN MinConn ELSE 0
  /\ pool_used = {}
  /\ pool_created = IF system = "paradedb" THEN MinConn ELSE 0
  /\ pool_closed = 0
  /\ now = 0 /\ log = EmptyBag /\ measured = 0 /\ failed_queries = 0 /\ faults = 0
  /\ report = NoReport
  /\ AssignIdle /\ RenderIdle /\ SessionIdle /\ MainIdle /\ LoadIdle /\ FileIdle /\ BenchIdle /\ CallIdle /\ PollIdle


\* ----------------------------------------------------- the connection pool
\* The pooled connections are alike: the pool is the number of free ones, the
\* workers that hold one and the numbers opened and closed.
\* conn = self._pool.pop(): the free list a checkout leaves behind
PoolPopKeep(free) == free

PoolPop(free) == free - 1

\* ------------------------------------------------------------ the runner
\* config = query_configs[query_type]: a KeyError for an identifier that is no key
LookupConfigDefault(configs, q) ==
  IF q \in DOMAIN configs THEN [found |-> TRUE, lists |-> configs[q]]
  ELSE [found |-> TRUE, lists |-> <<ConfigTerms(1)>>]

LookupConfig(configs, q) ==
  IF q \in DOMAIN configs THEN [found |-> TRUE, lists |-> configs[q]]
  ELSE [found |-> FALSE, lists |-> <<>>]

Finished(w) == wpc[w] \in {"done", "raised"}

\* run_concurrent_queries up to executor.submit of every worker_task
StartRun ==
  /\ rpc = "called"
  /\ LET c == LookupConfig(query_configs, query_type) IN
       IF c.found
       THEN /\ config' = c.lists
            /\ start_time' = now
            /\ rpc' = "running"
            /\ wpc' = [w \in Workers |-> "start"]
            /\ error' = error
       ELSE /\ rpc' = "raised"
            /\ error' = "KeyError"
            /\ UNCHANGED <<config, start_time, wpc>>
  /\ UNCHANGED <<total_latency, completed_transactions, collected, result>>
  /\ UNCHANGED <<held, cursor, idx, q_start, worker_time, worker_transactions, pending>>
  /\ UNCHANGED <<inputVars, poolVars, ghostVars, now, report, sideVars>>

\* end_time = time.perf_counter() of an interval begun at `since`: the clock as it
\* stands, or one tick on when it has not moved since the interval began
ReadAfter(since) == IF now > since THEN now ELSE now + 1

\* the place of a worker whose loop is over: the ParadeDB worker_task goes through
\* its finally block, the Elasticsearch one returns
AfterLoop == IF system = "paradedb" THEN "finally" ELSE "done"

LoopOrAfter(w, i) == IF i <= EndIdx(w, transactions, concurrency) THEN "loop" ELSE AfterLoop

\* conn = conn_pool.getconn(); try: cursor = conn.cursor(); start_idx, end_idx
\* conn.cursor() raises on a broken connection, which leads into the finally block
BeginWorker(w) ==
  /\ rpc \in {"running", "unwinding"}
  /\ system = "paradedb"
  /\ wpc[w] = "start"
  /\ IF pool = 0 /\ Cardinality(pool_used) = MaxConn
     THEN /\ wpc' = [wpc EXCEPT ![w] = "raised"]
          /\ pending' = [pending EXCEPT ![w] = "PoolError"]
          /\ UNCHANGED <<poolVars, held, cursor, idx, faults>>
     ELSE /\ IF pool > 0
             THEN pool' = PoolPop(pool) /\ UNCHANGED pool_created
             ELSE pool_created' = pool_created + 1 /\ UNCHANGED pool
          /\ pool_used' = pool_used \cup {w}
          /\ held' = [held EXCEPT ![w] = TRUE]
          /\ UNCHANGED pool_closed
          /\ \/ /\ cursor' = [cursor EXCEPT ![w] = "open"]
                /\ idx' = [idx EXCEPT ![w] = StartIdx(w, transactions, concurrency)]
                /\ wpc' = [wpc EXCEPT ![w] = LoopOrAfter(w, StartIdx(w, transactions, concurrency))]
                /\ UNCHANGED <<pending, faults>>
             \/ /\ faults < MaxFaults
                /\ faults' = faults + 1
                /\ pending' = [pending EXCEPT ![w] = "InterfaceError"]
                /\ wpc' = [wpc EXCEPT ![w] = "finally"]
                /\ UNCHANGED <<cursor, idx>>
  /\ UNCHANGED <<q_start, worker_time, worker_transactions>>
  /\ UNCHANGED <<log, measured, failed_queries>>
  /\ UNCHANGED <<inputVars, runnerVars, now, report, sideVars>>

\* the Elasticsearch worker_task has no connection to fetch: start_idx, end_idx
EsBegin(w) ==
  /\ rpc \in {"running", "unwinding"}
  /\ system = "es"
  /\ wpc[w] = "start"
  /\ idx' = [idx EXCEPT ![w] = StartIdx(w, transactions, concurrency)]
  /\ wpc' = [wpc EXCEPT ![w] = LoopOrAfter(w, StartIdx(w, transactions, concurrency))]
  /\ UNCHANGED <<held, cursor, q_start, worker_time, worker_transactions, pending>>
  /\ UNCHANGED <<inputVars, runnerVars, poolVars, ghostVars, now, report, sideVars>>

\* one pass of `for i in range(start_idx, end_idx + 1)` up to the first clock read
\* of run_single_query / run_query: the query is rendered and sent
QueryStart(w) ==
  /\ rpc \in {"running", "unwinding"}
  /\ wpc[w] = "loop"
  /\ idx[w] <= EndIdx(w, transactions, concurrency)
  /\ log' = log (+) SetToBag({[worker |-> w, i |-> idx[w], query |-> RenderQuery(query_type, config, idx[w])]})
  /\ q_start' = [q_start EXCEPT ![w] = now]
  /\ wpc' = [wpc EXCEPT ![w] = "exec"]
  /\ UNCHANGED <<held, cursor, idx, worker_time, worker_transactions, pending>>
  /\ UNCHANGED <<measured, failed_queries, faults>>
  /\ UNCHANGED <<inputVars, runnerVars, poolVars, now, report, sideVars>>

\* the rest of the pass: the query answers, no sooner than a tick after it was
\* sent, and its time is added, or it fails:
\* cursor.execute raises out of the ParadeDB worker's loop, run_query of the
\* Elasticsearch script catches and returns the elapsed time all the same
QueryEnd(w) ==
  /\ rpc \in {"running", "unwinding"}
  /\ wpc[w] = "exec"
  /\ now' = ReadAfter(q_start[w])
  /\ \/ /\ worker_time' = [worker_time EXCEPT ![w] = @ + (now' - q_start[w])]
        /\ worker_transactions' = [worker_transactions EXCEPT ![w] = @ + 1]
        /\ measured' = measured + (now' - q_start[w])
        /\ idx' = [idx EXCEPT ![w] = @ + 1]
        /\ wpc' = [wpc EXCEPT ![w] = LoopOrAfter(w, idx[w] + 1)]
        /\ UNCHANGED <<pending, failed_queries, faults>>
     \/ /\ faults < MaxFaults
        /\ system = "paradedb"
        /\ faults' = faults + 1
        /\ pending' = [pending EXCEPT ![w] = "DatabaseError"]
        /\ wpc' = [wpc EXCEPT ![w] = "finally"]
        /\ UNCHANGED <<worker_time, worker_transactions, measured, idx, failed_queries>>
     \/ /\ faults < MaxFaults
        /\ system = "es"
        /\ faults' = faults + 1
        /\ failed_queries' = failed_queries + 1
        /\ worker_time' = [worker_time EXCEPT ![w] = @ + (now' - q_start[w])]
        /\ worker_transactions' = [worker_transactions EXCEPT ![w] = @ + 1]
        /\ measured' = measured + (now' - q_start[w])
        /\ idx' = [idx EXCEPT ![w] = @ + 1]
        /\ wpc' = [wpc EXCEPT ![w] = LoopOrAfter(w, idx[w] + 1)]
        /\ UNCHANGED pending
  /\ UNCHANGED <<held, cursor, q_start, log>>
  /\ UNCHANGED <<inputVars, runnerVars, poolVars, report, sideVars>>

\* finally: cursor.close(); conn_pool.putconn(conn)
\* `cursor` is unbound when conn.cursor() raised: cursor.close() is then an
\* UnboundLocalError and putconn is never reached; nor is it when close() raises.
\* putconn keeps the connection while the free list is shorter than minconn and
\* closes it otherwise.
Finally(w) ==
  /\ rpc \in {"running", "unwinding"}
  /\ wpc[w] = "finally"
  /\ IF cursor[w] = "unbound"
     THEN /\ pending' = [pending EXCEPT ![w] = "UnboundLocalError"]
          /\ wpc' = [wpc EXCEPT ![w] = "raised"]
          /\ UNCHANGED <<cursor, held, poolVars, faults>>
     ELSE \/ /\ cursor' = [cursor EXCEPT ![w] = "closed"]
             /\ IF pool < MinConn
                THEN pool' = pool + 1 /\ UNCHANGED pool_closed
                ELSE pool_closed' = pool_closed + 1 /\ UNCHANGED pool
             /\ pool_used' = pool_used \ {w}
             /\ held' = [held EXCEPT ![w] = FALSE]
             /\ wpc' = [wpc EXCEPT ![w] = IF pending[w] = "none" THEN "done" ELSE "raised"]
             /\ UNCHANGED <<pool_created, pending, faults>>
          \/ /\ faults < MaxFaults
             /\ faults' = faults + 1
             /\ pending' = [pending EXCEPT ![w] = "CursorCloseError"]
             /\ wpc' = [wpc EXCEPT ![w] = "raised"]
             /\ UNCHANGED <<cursor, held, poolVars>>
  /\ UNCHANGED <<idx, q_start, worker_time, worker_transactions>>
  /\ UNCHANGED <<log, measured, failed_queries>>
  /\ UNCHANGED <<inputVars, runnerVars, now, report, sideVars>>

\* completed_transactions += worker_transactions; total_latency += worker_time
Overwritten(total, value) == value

Added(total, value) == total + value

\* for future in as_completed(futures): worker_time, worker_transactions = future.result()
\* result() re-raises what the worker raised, which leaves the loop
Collect(w) ==
  /\ rpc = "running"
  /\ w \notin collected
  /\ Finished(w)
  /\ IF wpc[w] = "done"
     THEN /\ completed_transactions' = Added(completed_transactions, worker_transactions[w])
          /\ total_latency' = Added(total_latency, worker_time[w])
          /\ collected' = collected \cup {w}
          /\ UNCHANGED <<rpc, error>>
     ELSE /\ error' = pending[w]
          /\ rpc' = "unwinding"
          /\ UNCHANGED <<completed_transactions, total_latency, collected>>
  /\ UNCHANGED <<config, start_time, result>>
  /\ UNCHANGED <<inputVars, workerVars, poolVars, ghostVars, now, report, sideVars>>

\* `for future in as_completed(futures)` is over: every future has been read
FirstCollected == collected # {}

AllCollected == collected = Workers

\* total_time = end_time - start_time
ElapsedPerWorker(end, start) == (end - start) \div 2

Elapsed(end, start) == end - start

\* the with block ends (every worker has finished), end_time is read, no sooner
\* than a tick after start_time, the average is computed and the runner returns
\* avg_latency, wall_time
Join ==
  /\ rpc = "running"
  /\ AllCollected
  /\ now' = ReadAfter(start_time)
  /\ LET avg == AvgLatency(total_latency, transactions) IN
       IF avg.den = 0
       THEN /\ rpc' = "raised"
            /\ error' = "ZeroDivisionError"
            /\ UNCHANGED result
       ELSE /\ rpc' = "returned"
            /\ result' = [avg_latency |-> avg, wall_time |-> Elapsed(now', start_time)]
            /\ UNCHANGED error
  /\ UNCHANGED <<config, start_time, total_latency, completed_transactions, collected>>
  /\ UNCHANGED <<inputVars, workerVars, poolVars, ghostVars, report, sideVars>>

\* ThreadPoolExecutor.__exit__ is shutdown(wait=True): it returns when every
\* submitted worker_task has ended, and cancels none
AllWorkersShutDownNoWait == TRUE

AllWorkersFinished == \A w \in Workers : Finished(w)

\* the with block left by an exception: shutdown(wait=True) waits for every worker,
\* then the exception leaves run_concurrent_queries
Unwind ==
  /\ rpc = "unwinding"
  /\ AllWorkersFinished
  /\ rpc' = "raised"
  /\ UNCHANGED <<config, start_time, total_latency, completed_transactions, collected, result, error>>
  /\ UNCHANGED <<inputVars, workerVars, poolVars, ghostVars, now, report, sideVars>>

\* main: the per-query file of a measured run
\*   f.write(f"Average Latency for Query {query_type}: {avg_latency:.6f}s\n")
\*   f.write(f"Wall time for Query {query_type}: {total_time:.6f}s\n")
WriteReport ==
  /\ rpc = "returned"
  /\ ~report.written
  /\ report' = [written |-> TRUE,
                average |-> Format6(result.avg_latency),
                total |-> Format6([num |-> result.wall_time, den |-> 1])]
  /\ UNCHANGED <<inputVars, runnerVars, workerVars, poolVars, ghostVars, now, sideVars>>

\* the TPS figures: print(f"TPS for Query {query_type}: {transactions / wall_time:.2f}"),
\* "tps": args.transactions / total_time if total_time > 0 else 0 of the aggregate
\* JSON, and query_tps = 1.0 / avg_time of the plot generator for an avg_time > 0
\* read from the per-query file (fractions, per tick)
RunnerTps(t, wall) == [num |-> t, den |-> wall]

JsonTps(t, total) == IF total > 0 THEN [num |-> t, den |-> total] ELSE [num |-> 0, den |-> 1]

PlotTps(avg) == [num |-> 1, den |-> avg]

\* how long the clock may run on its own: the ticks the longest worker needs at
\* least (one a query) and MaxSlack more; past that it moves only where a
\* measured interval needs its tick
ClockLimit == start_time + TransactionsPerWorker(transactions, concurrency) + MaxSlack

\* time passes while the parallel phase is under way
Tick ==
  /\ rpc \in {"running", "unwinding"}
  /\ now < ClockLimit
  /\ now' = now + 1
  /\ UNCHANGED <<inputVars, runnerVars, workerVars, poolVars, ghostVars, report, sideVars>>

\* a finished future the coordinator has yet to read
Collectable == rpc = "running" /\ \E w \in Workers : w \notin collected /\ Finished(w)

\* the coordinator reads a future as soon as it is done: the reading touches
\* nothing but the coordinator's own totals, so where it falls between the steps
\* of the other workers cannot be observed
Next ==
  \/ StartRun
  \/ \E w \in Workers : Collect(w)
  \/ Join
  \/ Unwind
  \/ WriteReport
  \/ /\ ~Collectable
     /\ \/ \E w \in Workers : BeginWorker(w)
        \/ \E w \in Workers : EsBegin(w)
        \/ \E w \in Workers : QueryStart(w)
        \/ \E w \in Workers : QueryEnd(w)
        \/ \E w \in Workers : Finally(w)
        \/ Tick

Spec == Init /\ [][Next]_vars


\* ------------------------------------------- index assignment on its own
\* the ranges the workers 1..concurrency compute, in the order the runner submits
\* them: futures = [executor.submit(worker_task, worker_id) for worker_id in range(1, concurrency + 1)]
InitAssign ==
  /\ a_transactions \in 0..MaxAssignTransactions
  /\ a_concurrency \in 1..MaxAssignConcurrency
  /\ a_ranges = <<>>
  /\ RunnerIdle /\ RenderIdle /\ SessionIdle /\ MainIdle /\ LoadIdle /\ FileIdle /\ BenchIdle /\ CallIdle /\ PollIdle

AssignWorker ==
  /\ a_concurrency > 0
  /\ Len(a_ranges) < a_concurrency
  /\ LET w == Len(a_ranges) + 1 IN
       a_ranges' = Append(a_ranges, [start |-> StartIdx(w, a_transactions, a_concurrency),
                                     end |-> EndIdx(w, a_transactions, a_concurrency)])
  /\ UNCHANGED <<a_transactions, a_concurrency>>
  /\ UNCHANGED exceptAssign

NextAssign == AssignWorker

SpecAssign == InitAssign /\ [][NextAssign]_vars

\* --------------------------------------------- query rendering on its own
\* the queries worker_task renders for i = 1, 2, ... from the term lists of one
\* query type of one catalog
InitRender ==
  /\ r_system \in Systems
  /\ \E len \in 1..MaxTerms :
       /\ r_query_type \in DOMAIN QueryConfigs(r_system, len)
       /\ r_lists = QueryConfigs(r_system, len)[r_query_type]
  /\ r_i = 0
  /\ r_queries = <<>>
  /\ RunnerIdle /\ AssignIdle /\ SessionIdle /\ MainIdle /\ LoadIdle /\ FileIdle /\ BenchIdle /\ CallIdle /\ PollIdle

RenderNext ==
  /\ r_system # ""
  /\ r_i < MaxRenderIndex
  /\ r_i' = r_i + 1
  /\ r_queries' = Append(r_queries, RenderQuery(r_query_type, r_lists, r_i + 1))
  /\ UNCHANGED <<r_system, r_query_type, r_lists>>
  /\ UNCHANGED exceptRender

NextRender == RenderNext

SpecRender == InitRender /\ [][NextRender]_vars

\* ------------------------------------- the requests session on its own
\* create_session: HTTPAdapter(pool_connections=10, pool_maxsize=10, pool_block=False)
PoolMaxsize == 10

PoolBlock == FALSE

\* the worker threads of the Elasticsearch runner share one session and so one
\* connection pool: a queue of pool_maxsize slots, all of them filled at first
InitSession ==
  /\ s_concurrency \in 1..MaxSessionWorkers
  /\ s_queue = PoolMaxsize
  /\ s_conn = [w \in 1..s_concurrency |-> "none"]
  /\ RunnerIdle /\ AssignIdle /\ RenderIdle /\ MainIdle /\ LoadIdle /\ FileIdle /\ BenchIdle /\ CallIdle /\ PollIdle

\* whether a request finds a connection: a slot of the queue, or, the queue being
\* empty, a connection opened beside the pool unless the pool blocks
ConnFor(queue, block) ==
  IF queue > 0 THEN "pooled" ELSE IF block THEN "wait" ELSE "outside"

\* run_query: session.get(url, ...) takes a connection for the request
SessionGet(w) ==
  /\ s_conn[w] = "none"
  /\ ConnFor(s_queue, PoolBlock) # "wait"
  /\ s_conn' = [s_conn EXCEPT ![w] = ConnFor(s_queue, PoolBlock)]
  /\ s_queue' = IF s_queue > 0 THEN s_queue - 1 ELSE s_queue
  /\ UNCHANGED s_concurrency
  /\ UNCHANGED exceptSession

\* the response has been read: the connection goes back into the queue, or is
\* discarded when the queue is full
SessionPut(w) ==
  /\ s_conn[w] # "none"
  /\ s_conn' = [s_conn EXCEPT ![w] = "none"]
  /\ s_queue' = IF s_queue < PoolMaxsize THEN s_queue + 1 ELSE s_queue
  /\ UNCHANGED s_concurrency
  /\ UNCHANGED exceptSession

NextSession ==
  \/ \E w \in 1..s_concurrency : SessionGet(w)
  \/ \E w \in 1..s_concurrency : SessionPut(w)

SpecSession == InitSession /\ [][NextSession]_vars

\* --------------------------------------------------- main on its own
\* wait_for_database / wait_for_elasticsearch: max_attempts = 30, time.sleep(2)
MaxAttempts == 30

SleepSeconds == 2

\* the steps of main in the order it takes them; "refresh" is the end of the
\* Elasticsearch load_data, "size" the end of the ParadeDB create_index
StepsOf(sys) ==
  IF sys = "paradedb"
  THEN <<"wait", "verify", "setup", "table", "load", "index", "size", "pool", "count", "warmup", "measure", "json", "exited">>
  ELSE <<"wait", "setup", "load", "refresh", "count", "warmup", "measure", "exited">>

NextStep(sys, pc) ==
  LET steps == StepsOf(sys)
      k == CHOOSE j \in 1..Len(steps) : steps[j] = pc
  IN steps[k + 1]

\* the query types main goes through: [1, 2, 3, 4, 5, 6] and [1, 2, 3]
NTypes(sys) == IF sys = "paradedb" THEN Cardinality(ParadeQueryTypes) ELSE Cardinality(EsQueryTypes)

ResultFiles == {"data_loading_time.txt", "index_creation_time.txt", "database_size.txt"}

\* the process starts with whatever an earlier run has left in /tmp
InitMain ==
  /\ m_system \in Systems
  /\ m_pc = "wait"
  /\ m_attempt = 0 /\ m_tries = 0 /\ m_slept = 0
  /\ m_exit = 0 - 1
  /\ m_completed = <<>> /\ m_failed = {}
  /\ m_files \in [ResultFiles -> {"absent", "stale"}]
  /\ m_queries = 0
  /\ RunnerIdle /\ AssignIdle /\ RenderIdle /\ SessionIdle /\ LoadIdle /\ FileIdle /\ BenchIdle /\ CallIdle /\ PollIdle

\* while attempt < max_attempts
MayAttemptOnceMore(attempt) == attempt <= MaxAttempts

MayAttempt(attempt) == attempt < MaxAttempts

\* a stage function returns normally
Returns(stage) ==
  /\ m_completed' = Append(m_completed, stage)
  /\ m_pc' = NextStep(m_system, m_pc)
  /\ UNCHANGED <<m_failed, m_exit>>

\* a call inside a stage fails and the process ends: an exception that nothing
\* catches, or a False return answered by sys.exit(1)
Fails(stage) ==
  /\ m_failed' = m_failed \cup {stage}
  /\ m_pc' = "exited"
  /\ m_exit' = 1
  /\ UNCHANGED m_completed

\* the file that holds the duration of a stage: data_loading_time.txt of either
\* load_data, index_creation_time.txt of create_index and of setup_index
TimingFile(sys, stage) ==
  CASE stage = "load" -> "data_loading_time.txt"
    [] stage = "index" /\ sys = "paradedb" -> "index_creation_time.txt"
    [] stage = "setup" /\ sys = "es" -> "index_creation_time.txt"
    [] OTHER -> "none"

\* with open('/tmp/<file>', 'w') as f: f.write(...) of a stage
WritesNothing(file, stage) == UNCHANGED m_files

Writes(file, stage) == m_files' = [m_files EXCEPT ![file] = stage]

\* one pass of the wait loop: the target answers and the function returns True, or
\* it does not and the loop sleeps and counts the attempt
WaitAttempt ==
  /\ m_pc = "wait"
  /\ MayAttempt(m_attempt)
  /\ m_tries' = m_tries + 1
  /\ \/ /\ m_pc' = NextStep(m_system, m_pc)
        /\ UNCHANGED <<m_attempt, m_slept>>
     \/ /\ m_slept' = m_slept + SleepSeconds
        /\ m_attempt' = m_attempt + 1
        /\ UNCHANGED m_pc
  /\ UNCHANGED <<m_system, m_exit, m_completed, m_failed, m_files, m_queries>>
  /\ UNCHANGED exceptMain

\* the loop is over without an answer: return False, and main calls sys.exit(1)
WaitGiveUp ==
  /\ m_pc = "wait"
  /\ ~MayAttempt(m_attempt)
  /\ m_pc' = "exited"
  /\ m_exit' = 1
  /\ UNCHANGED <<m_system, m_attempt, m_tries, m_slept, m_completed, m_failed, m_files, m_queries>>
  /\ UNCHANGED exceptMain

\* verify_postgres_settings, setup_database, create_table, create_connection_pool
\* and the document count of the ParadeDB main: each returns or raises
PlainStep ==
  /\ m_system = "paradedb"
  /\ m_pc \in {"verify", "setup", "table", "pool", "count"}
  /\ \/ Returns(m_pc)
     \/ Fails(m_pc)
  /\ UNCHANGED <<m_system, m_attempt, m_tries, m_slept, m_files, m_queries>>
  /\ UNCHANGED exceptMain

\* ParadeDB load_data: the load is committed and its time written, or it raises
LoadData ==
  /\ m_system = "paradedb"
  /\ m_pc = "load"
  /\ \/ Returns("load") /\ Writes(TimingFile(m_system, "load"), "load")
     \/ Fails("load") /\ UNCHANGED m_files
  /\ UNCHANGED <<m_system, m_attempt, m_tries, m_slept, m_queries>>
  /\ UNCHANGED exceptMain

\* ParadeDB create_index up to the write of its time: index, VACUUM, prewarm
CreateIndex ==
  /\ m_system = "paradedb"
  /\ m_pc = "index"
  /\ \/ /\ Writes(TimingFile(m_system, "index"), "index")
        /\ m_pc' = NextStep(m_system, m_pc)
        /\ UNCHANGED <<m_completed, m_failed, m_exit>>
     \/ Fails("index") /\ UNCHANGED m_files
  /\ UNCHANGED <<m_system, m_attempt, m_tries, m_slept, m_queries>>
  /\ UNCHANGED exceptMain

\* the rest of create_index: the database size is read and written
MeasureSize ==
  /\ m_system = "paradedb"
  /\ m_pc = "size"
  /\ \/ Returns("index") /\ Writes("database_size.txt", "index")
     \/ Fails("index") /\ UNCHANGED m_files
  /\ UNCHANGED <<m_system, m_attempt, m_tries, m_slept, m_queries>>
  /\ UNCHANGED exceptMain

\* Elasticsearch setup_index: the DELETE, whose failure is passed over, and the PUT,
\* whose status is checked; the time is written when the index has been created
SetupIndex ==
  /\ m_system = "es"
  /\ m_pc = "setup"
  /\ \/ Returns("setup") /\ Writes(TimingFile(m_system, "setup"), "setup")
     \/ Fails("setup") /\ UNCHANGED m_files
  /\ UNCHANGED <<m_system, m_attempt, m_tries, m_slept, m_queries>>
  /\ UNCHANGED exceptMain

\* Elasticsearch load_data up to the refresh: every bulk request is answered with
\* 200 or 201, or one is not and load_data returns False
BulkLoad ==
  /\ m_system = "es"
  /\ m_pc = "load"
  /\ \/ /\ m_pc' = NextStep(m_system, m_pc)
        /\ UNCHANGED <<m_completed, m_failed, m_exit>>
     \/ Fails("load")
  /\ UNCHANGED <<m_system, m_attempt, m_tries, m_slept, m_files, m_queries>>
  /\ UNCHANGED exceptMain

\* session.post(refresh_url, timeout=10): the response is not looked at, so an
\* error status goes unnoticed; an exception ends the process; load_data then
\* writes its time and returns True
Refresh ==
  /\ m_system = "es"
  /\ m_pc = "refresh"
  /\ \/ Returns("load") /\ Writes(TimingFile(m_system, "load"), "load")
     \/ /\ m_failed' = m_failed \cup {"load"}
        /\ m_completed' = Append(m_completed, "load")
        /\ m_pc' = NextStep(m_system, m_pc)
        /\ Writes(TimingFile(m_system, "load"), "load")
        /\ UNCHANGED m_exit
     \/ Fails("load") /\ UNCHANGED m_files
  /\ UNCHANGED <<m_system, m_attempt, m_tries, m_slept, m_queries>>
  /\ UNCHANGED exceptMain

\* Elasticsearch count_documents: the count, or 0 for an error status, which main
\* does not look at; an exception ends the process
CountDocuments ==
  /\ m_system = "es"
  /\ m_pc = "count"
  /\ \/ Returns("count")
     \/ /\ m_failed' = m_failed \cup {"count"}
        /\ m_pc' = NextStep(m_system, m_pc)
        /\ UNCHANGED <<m_completed, m_exit>>
     \/ Fails("count")
  /\ UNCHANGED <<m_system, m_attempt, m_tries, m_slept, m_files, m_queries>>
  /\ UNCHANGED exceptMain

\* one pass of a loop over the query types: the warmup run or the measured run of
\* one query type; a runner that raises ends the process
RunQueries ==
  /\ m_pc \in {"warmup", "measure"}
  /\ m_queries' = m_queries + 1
  /\ \/ /\ m_pc' = IF m_queries + 1 = NTypes(m_system) \/ m_queries + 1 = 2 * NTypes(m_system)
                   THEN NextStep(m_system, m_pc) ELSE m_pc
        /\ m_exit' = IF m_pc' = "exited" THEN 0 ELSE m_exit
        /\ UNCHANGED <<m_completed, m_failed>>
     \/ /\ m_system = "paradedb"
        /\ Fails(m_pc)
  /\ UNCHANGED <<m_system, m_attempt, m_tries, m_slept, m_files>>
  /\ UNCHANGED exceptMain

\* json.dump(results, f, indent=2) and the end of the ParadeDB main
WriteJson ==
  /\ m_pc = "json"
  /\ \/ /\ m_completed' = Append(m_completed, "json")
        /\ m_pc' = NextStep(m_system, m_pc)
        /\ m_exit' = 0
        /\ UNCHANGED m_failed
     \/ Fails("json")
  /\ UNCHANGED <<m_system, m_attempt, m_tries, m_slept, m_files, m_queries>>
  /\ UNCHANGED exceptMain

\* the process is killed from outside
Crash ==
  /\ m_pc \notin {"off", "exited"}
  /\ m_pc' = "exited"
  /\ m_exit' = 137
  /\ UNCHANGED <<m_system, m_attempt, m_tries, m_slept, m_completed, m_failed, m_files, m_queries>>
  /\ UNCHANGED exceptMain

NextMain ==
  \/ WaitAttempt
  \/ WaitGiveUp
  \/ PlainStep
  \/ LoadData
  \/ CreateIndex
  \/ MeasureSize
  \/ SetupIndex
  \/ BulkLoad
  \/ Refresh
  \/ CountDocuments
  \/ RunQueries
  \/ WriteJson
  \/ Crash

SpecMain == InitMain /\ [][NextMain]_vars

\* -------------------------------------------- setup and load on their own
\* A line of the data file is a document with an id ("doc"), a JSON object
\* without an id ("noid") or not JSON at all ("junk"); a line is known by its
\* place in the file. batch_size (10000 and 5000 in the scripts) is BatchSize.
LineKinds == {"doc", "noid", "junk"}

RECURSIVE SeqsUpTo(_, _)
SeqsUpTo(S, n) ==
  IF n = 0 THEN {<<>>}
  ELSE LET shorter == SeqsUpTo(S, n - 1) IN
         shorter \cup {Append(q, x) : q \in {r \in shorter : Len(r) = n - 1}, x \in S}

InitLoad ==
  /\ l_system \in Systems
  /\ l_lines \in SeqsUpTo(LineKinds, MaxLines)
  /\ l_expected \in 1..MaxLines
  /\ l_run = 1
  /\ l_pc = "setup"
  /\ l_pos = 0 /\ l_documents = <<>> /\ l_count = 0
  /\ l_store \in {<<>>, <<0>>}        \* 0: a record that an earlier benchmark left
  /\ l_sent = {} /\ l_skipped = {}
  /\ l_first = 0 - 1
  /\ RunnerIdle /\ AssignIdle /\ RenderIdle /\ SessionIdle /\ MainIdle /\ FileIdle /\ BenchIdle /\ CallIdle /\ PollIdle

Range(q) == {q[k] : k \in 1..Len(q)}

\* DROP DATABASE / DROP TABLE ... CREATE TABLE, and DELETE index / PUT index:
\* what the target holds once it has been dropped and created again
RecreatedKeep(store) == store

Recreated(store) == <<>>

\* setup_database and create_table, or setup_index; load_data then starts reading
Setup ==
  /\ l_pc = "setup"
  /\ l_store' = Recreated(l_store)
  /\ l_pc' = "read"
  /\ l_pos' = 0 /\ l_documents' = <<>> /\ l_count' = 0
  /\ UNCHANGED <<l_system, l_lines, l_expected, l_run, l_sent, l_skipped, l_first>>
  /\ UNCHANGED exceptLoad

\* the old target could not be dropped (DROP DATABASE raises; the DELETE failed and
\* PUT answers 400 for the index that is still there): the script stops
SetupRefused ==
  /\ l_pc = "setup"
  /\ l_store # <<>>
  /\ l_pc' = "refused"
  /\ UNCHANGED <<l_system, l_lines, l_expected, l_run, l_pos, l_documents, l_count, l_store, l_sent, l_skipped, l_first>>
  /\ UNCHANGED exceptLoad

\* writer.writerow([d['id'], ...]) for d in documents: a KeyError for a document
\* without an id
CsvFails(batch) == \E k \in 1..Len(batch) : l_lines[batch[k]] = "noid"

\* where the loop goes after a line: `if count >= expected_size: break`, the end of
\* the file, or the next line
AfterLine(count, pos) == IF count >= l_expected \/ pos >= Len(l_lines) THEN "final" ELSE "read"

\* ParadeDB load_data, one pass of `for line in f`: json.loads, append, a COPY of a
\* full batch; a JSONDecodeError is printed and the line passed over
ReadLine ==
  /\ l_system = "paradedb"
  /\ l_pc = "read"
  /\ l_pos < Len(l_lines)
  /\ l_pos' = l_pos + 1
  /\ IF l_lines[l_pos + 1] = "junk"
     THEN /\ l_skipped' = l_skipped \cup {l_pos + 1}
          /\ l_pc' = AfterLine(0, l_pos + 1)
          /\ UNCHANGED <<l_documents, l_count, l_store, l_sent>>
     ELSE LET batch == Append(l_documents, l_pos + 1) IN
            /\ l_count' = l_count + 1
            /\ IF Len(batch) >= BatchSize
               THEN IF CsvFails(batch)
                    THEN /\ l_pc' = "failed"
                         /\ l_documents' = batch
                         /\ UNCHANGED <<l_store, l_sent>>
                    ELSE /\ l_store' = l_store \o batch
                         /\ l_sent' = l_sent \cup Range(batch)
                         /\ l_documents' = <<>>
                         /\ l_pc' = AfterLine(l_count + 1, l_pos + 1)
               ELSE /\ l_documents' = batch
                    /\ l_pc' = AfterLine(l_count + 1, l_pos + 1)
                    /\ UNCHANGED <<l_store, l_sent>>
            /\ UNCHANGED l_skipped
  /\ UNCHANGED <<l_system, l_lines, l_expected, l_run, l_first>>
  /\ UNCHANGED exceptLoad

\* the file is empty: the loop body never runs
NoLine ==
  /\ l_pc = "read"
  /\ l_pos >= Len(l_lines)
  /\ l_pc' = "final"
  /\ UNCHANGED <<l_system, l_lines, l_expected, l_run, l_pos, l_documents, l_count, l_store, l_sent, l_skipped, l_first>>
  /\ UNCHANGED exceptLoad

\* ParadeDB load_data after the loop: `if documents:` the rest is copied; commit
FinalCopy ==
  /\ l_system = "paradedb"
  /\ l_pc = "final"
  /\ IF l_documents # <<>> /\ CsvFails(l_documents)
     THEN /\ l_pc' = "failed"
          /\ UNCHANGED <<l_documents, l_store, l_sent>>
     ELSE /\ l_store' = l_store \o l_documents
          /\ l_sent' = l_sent \cup Range(l_documents)
          /\ l_documents' = <<>>
          /\ l_pc' = "done"
  /\ UNCHANGED <<l_system, l_lines, l_expected, l_run, l_pos, l_count, l_skipped, l_first>>
  /\ UNCHANGED exceptLoad

\* the lines of a bulk request that the index takes in
Accepted(batch) == SelectSeq(batch, LAMBDA k : l_lines[k] # "junk")

HasJunk(batch) == \E k \in 1..Len(batch) : l_lines[batch[k]] = "junk"

\* session.post(bulk_url, data=bulk_data, ...): a request of sound lines is
\* answered with 200; one with a line that is not JSON is either refused as a
\* whole, and load_data returns False, or answered with 200 and item errors
BulkPost(batch, next) ==
  /\ l_sent' = l_sent \cup Range(batch)
  /\ \/ /\ l_store' = l_store \o Accepted(batch)
        /\ l_documents' = <<>>
        /\ l_pc' = next
     \/ /\ HasJunk(batch)
        /\ l_pc' = "failed"
        /\ l_documents' = batch
        /\ UNCHANGED l_store

\* Elasticsearch load_data, one pass of `for line in f`: bulk_data += line, a bulk
\* request for a full batch
AddLine ==
  /\ l_system = "es"
  /\ l_pc = "read"
  /\ l_pos < Len(l_lines)
  /\ l_pos' = l_pos + 1
  /\ l_count' = l_count + 1
  /\ LET batch == Append(l_documents, l_pos + 1) IN
       IF Len(batch) >= BatchSize
       THEN BulkPost(batch, AfterLine(l_count + 1, l_pos + 1))
       ELSE /\ l_documents' = batch
            /\ l_pc' = AfterLine(l_count + 1, l_pos + 1)
            /\ UNCHANGED <<l_store, l_sent>>
  /\ UNCHANGED <<l_system, l_lines, l_expected, l_run, l_skipped, l_first>>
  /\ UNCHANGED exceptLoad

\* Elasticsearch load_data after the loop: `if bulk_data:` the rest is sent
FinalPost ==
  /\ l_system = "es"
  /\ l_pc = "final"
  /\ IF l_documents # <<>>
     THEN BulkPost(l_documents, "done")
     ELSE l_pc' = "done" /\ UNCHANGED <<l_documents, l_store, l_sent>>
  /\ UNCHANGED <<l_system, l_lines, l_expected, l_run, l_pos, l_count, l_skipped, l_first>>
  /\ UNCHANGED exceptLoad

\* the whole pipeline is run once more on the same file
Rerun ==
  /\ l_pc = "done"
  /\ l_run = 1
  /\ l_run' = 2
  /\ l_first' = Len(l_store)
  /\ l_pc' = "setup"
  /\ l_sent' = {} /\ l_skipped' = {}
  /\ UNCHANGED <<l_system, l_lines, l_expected, l_pos, l_documents, l_count, l_store>>
  /\ UNCHANGED exceptLoad

NextLoad ==
  \/ Setup
  \/ SetupRefused
  \/ ReadLine
  \/ NoLine
  \/ FinalCopy
  \/ AddLine
  \/ FinalPost
  \/ Rerun

SpecLoad == InitLoad /\ [][NextLoad]_vars

\* ------------------------------------- the per-query file, written and read
\* A file is the sequence of its characters. A time is a fraction of millionths
\* of a second; Format6 gives the number of millionths that `:.6f` prints.
AverageLatency == <<"A", "v", "e", "r", "a", "g", "e", " ", "L", "a", "t", "e", "n", "c", "y">>

AverageTime == <<"A", "v", "e", "r", "a", "g", "e", " ", "t", "i", "m", "e">>

WallTime == <<"W", "a", "l", "l", " ", "t", "i", "m", "e">>

ForQuery == <<" ", "f", "o", "r", " ", "Q", "u", "e", "r", "y", " ">>

Digits == <<"0", "1", "2", "3", "4", "5", "6", "7", "8", "9">>

IsDigit(c) == \E d \in 1..10 : Digits[d] = c

DigitValue(c) == (CHOOSE d \in 1..10 : Digits[d] = c) - 1

RECURSIVE Decimal(_)
\* str(n) for n >= 0
Decimal(n) == IF n < 10 THEN <<Digits[n + 1]>> ELSE Append(Decimal(n \div 10), Digits[(n % 10) + 1])

RECURSIVE Padded(_, _)
\* the last `width` digits of n, zeros in front
Padded(n, width) == IF width = 0 THEN <<>> ELSE Append(Padded(n \div 10, width - 1), Digits[(n % 10) + 1])

\* f"{x:.6f}" of the time whose millionths are `micro`
Fixed6(micro) == Decimal(micro \div 1000000) \o <<".">> \o Padded(micro % 1000000, 6)

\* f"<label> for Query {query_type}: {x:.6f}s\n"
ReportLine(label, query, x) ==
  label \o ForQuery \o Decimal(query) \o <<":", " ">> \o Fixed6(Format6(x)) \o <<"s", "\n">>

RECURSIVE Split(_, _)
\* str.split(sep): the pieces between the separators
Split(text, sep) ==
  IF \A k \in 1..Len(text) : text[k] # sep THEN <<text>>
  ELSE LET k == CHOOSE j \in 1..Len(text) : text[j] = sep /\ \A i \in 1..(j - 1) : text[i] # sep
       IN <<SubSeq(text, 1, k - 1)>> \o Split(SubSeq(text, k + 1, Len(text)), sep)

RECURSIVE RStrip(_, _)
\* str.rstrip(chars)
RStrip(text, chars) ==
  IF text # <<>> /\ text[Len(text)] \in chars THEN RStrip(SubSeq(text, 1, Len(text) - 1), chars) ELSE text

RECURSIVE LStrip(_, _)
LStrip(text, chars) ==
  IF text # <<>> /\ text[1] \in chars THEN LStrip(Tail(text), chars) ELSE text

Whitespace == {" ", "\n"}

\* str.strip()
Strip(text) == LStrip(RStrip(text, Whitespace), Whitespace)

KeepS(text) == text

\* time_str.rstrip('s')
RStripS(text) == RStrip(text, {"s"})

StartsWith(text, prefix) == Len(text) >= Len(prefix) /\ SubSeq(text, 1, Len(prefix)) = prefix

RECURSIVE Number(_)
\* the number that a sequence of digits writes
Number(digits) ==
  IF digits = <<>> THEN 0 ELSE 10 * Number(SubSeq(digits, 1, Len(digits) - 1)) + DigitValue(digits[Len(digits)])

RECURSIVE Power10(_)
Power10(n) == IF n = 0 THEN 1 ELSE 10 * Power10(n - 1)

\* float(text) for a text of digits with at most one point, as a fraction; any
\* other text is a ValueError here
ParseFloat(text) ==
  LET parts == Split(text, ".")
      whole == parts[1]
      frac == IF Len(parts) = 2 THEN parts[2] ELSE <<>>
  IN IF /\ Len(parts) <= 2
        /\ \A k \in 1..Len(whole) : IsDigit(whole[k])
        /\ \A k \in 1..Len(frac) : IsDigit(frac[k])
        /\ Len(whole) + Len(frac) > 0
     THEN [ok |-> TRUE, num |-> Number(whole \o frac), den |-> Power10(Len(frac))]
     ELSE [ok |-> FALSE, num |-> 0, den |-> 1]

RECURSIVE ParseLines(_, _)
\* the loop of parse_time_file over content.split('\n'): `times` after the lines,
\* or the exception that ended it
ParseLines(lines, times) ==
  IF lines = <<>> \/ times.status \in {"ValueError", "IndexError"} THEN times
  ELSE LET line == Strip(Head(lines))
           isAverage == StartsWith(line, AverageTime) \/ StartsWith(line, AverageLatency)
           isTotal == ~isAverage /\ StartsWith(line, WallTime)
           pieces == Split(line, ":")
           value == ParseFloat(RStripS(Strip(pieces[2])))
           after == IF ~(isAverage \/ isTotal) THEN times
                    ELSE IF Len(pieces) < 2 THEN [times EXCEPT !.status = "IndexError"]
                    ELSE IF ~value.ok THEN [times EXCEPT !.status = "ValueError"]
                    ELSE IF isAverage
                         THEN [times EXCEPT !.status = "ok", !.average = [num |-> value.num, den |-> value.den]]
                         ELSE [times EXCEPT !.status = "ok", !.total = [num |-> value.num, den |-> value.den]]
       IN ParseLines(Tail(lines), after)

\* parse_time_file(filepath): None for a missing file, a file without a time line,
\* and a ValueError
ParseTimeFileOf(written, content) ==
  IF ~written THEN [NotParsed EXCEPT !.status = "None"]
  ELSE LET times == ParseLines(Split(content, "\n"), [NotParsed EXCEPT !.status = "empty"])
       IN IF times.status \in {"empty", "ValueError"} THEN [NotParsed EXCEPT !.status = "None"] ELSE times

ReportQueries == {1, 2, 3, 10}

ReportTimes ==
  {[num |-> n, den |-> d] : n \in {0, 1, 5, 999999, 1000000, 12345678, 100000005}, d \in {1, 2, 3}}

InitFile ==
  /\ f_query \in ReportQueries
  /\ f_avg \in ReportTimes
  /\ f_total \in ReportTimes
  /\ f_written = FALSE
  /\ f_content = <<>>
  /\ f_times = NotParsed
  /\ RunnerIdle /\ AssignIdle /\ RenderIdle /\ SessionIdle /\ MainIdle /\ LoadIdle /\ BenchIdle /\ CallIdle /\ PollIdle

\* main: the two f.write calls on /tmp/query<n>_time.txt, opened with 'w'
WriteFile ==
  /\ ~f_written
  /\ f_written' = TRUE
  /\ f_content' = ReportLine(AverageLatency, f_query, f_avg) \o ReportLine(WallTime, f_query, f_total)
  /\ UNCHANGED <<f_query, f_avg, f_total, f_times>>
  /\ UNCHANGED exceptFile

\* generate_plots: parse_time_file on the file of this query
ParseTimeFile ==
  /\ f_times.status = "unparsed"
  /\ f_times' = ParseTimeFileOf(f_written, f_content)
  /\ UNCHANGED <<f_query, f_avg, f_total, f_written, f_content>>
  /\ UNCHANGED exceptFile

NextFile ==
  \/ WriteFile
  \/ ParseTimeFile

SpecFile == InitFile /\ [][NextFile]_vars

\* ------------------------------------ the benchmark phase of main on its own
\* main from create_connection_pool (ParadeDB) or count_documents (Elasticsearch)
\* to its end. A value written to a file or kept in `results` is known by the
\* phase of the run that produced it.
BenchTypes(sys) == 1..NTypes(sys)

InitBench ==
  /\ b_system \in Systems
  /\ b_pc = IF b_system = "paradedb" THEN "pool" ELSE "count"
  /\ b_type = 0
  /\ b_raised = FALSE
  /\ b_exit = 0 - 1
  /\ b_pool = "none"
  /\ b_runs = <<>>
  /\ b_results = [q \in BenchTypes(b_system) |-> "none"]
  /\ b_files \in {[q \in BenchTypes(b_system) |-> old] : old \in {"absent", "stale"}}
  /\ b_json \in {[state |-> old, entries |-> [q \in BenchTypes(b_system) |-> "none"], writes |-> 0] : old \in {"absent", "stale"}}
  /\ RunnerIdle /\ AssignIdle /\ RenderIdle /\ SessionIdle /\ MainIdle /\ LoadIdle /\ FileIdle /\ CallIdle /\ PollIdle

\* an exception inside the try block of the ParadeDB main: on to its finally
Raises ==
  /\ b_system = "paradedb"
  /\ b_raised' = TRUE
  /\ b_pc' = "closeall"
  /\ UNCHANGED <<b_type, b_exit, b_pool, b_runs, b_results, b_files, b_json>>

\* benchmark_pool = create_connection_pool(...): the pool, or sys.exit(1)
CreatePool ==
  /\ b_system = "paradedb"
  /\ b_pc = "pool"
  /\ \/ /\ b_pool' = "open"
        /\ b_pc' = "count"
        /\ UNCHANGED b_exit
     \/ /\ b_pc' = "exited"
        /\ b_exit' = 1
        /\ UNCHANGED b_pool
  /\ UNCHANGED <<b_system, b_type, b_raised, b_runs, b_results, b_files, b_json>>
  /\ UNCHANGED exceptBench

\* the document count of the ParadeDB main, which stands before the try block
\* whose finally closes the pool: an exception of the query leaves main at once
CountQuery ==
  /\ b_system = "paradedb"
  /\ b_pc = "count"
  /\ \/ /\ b_pc' = "explain"
        /\ b_type' = 1
        /\ UNCHANGED <<b_raised, b_exit>>
     \/ /\ b_raised' = TRUE
        /\ b_pc' = "exited"
        /\ b_exit' = 1
        /\ UNCHANGED b_type
  /\ UNCHANGED <<b_system, b_pool, b_runs, b_results, b_files, b_json>>
  /\ UNCHANGED exceptBench

\* count_documents of the Elasticsearch main: its value is not looked at; an
\* exception ends the process
EsCount ==
  /\ b_system = "es"
  /\ b_pc = "count"
  /\ \/ /\ b_pc' = "warmup"
        /\ b_type' = 1
        /\ UNCHANGED <<b_raised, b_exit>>
     \/ /\ b_raised' = TRUE
        /\ b_pc' = "exited"
        /\ b_exit' = 1
        /\ UNCHANGED b_type
  /\ UNCHANGED <<b_system, b_pool, b_runs, b_results, b_files, b_json>>
  /\ UNCHANGED exceptBench

\* run_explain_analyze(benchmark_pool, query_type): a failed EXPLAIN is printed
\* and passed over; conn.cursor() failing leaves through the finally as an
\* UnboundLocalError
Explain ==
  /\ b_system = "paradedb"
  /\ b_pc = "explain"
  /\ \/ /\ b_pc' = "warmup"
        /\ UNCHANGED <<b_type, b_raised, b_exit, b_pool, b_runs, b_results, b_files, b_json>>
     \/ Raises
  /\ UNCHANGED b_system
  /\ UNCHANGED exceptBench

\* where main goes when the warmup run of query type q has returned
WarmupNextInterleaved(sys, q) == [pc |-> "measure", type |-> q]

WarmupNext(sys, q) ==
  IF q < NTypes(sys)
  THEN [pc |-> IF sys = "paradedb" THEN "explain" ELSE "warmup", type |-> q + 1]
  ELSE [pc |-> "measure", type |-> 1]

\* the warmup call of run_concurrent_queries: what it returns is not assigned
WarmupRun ==
  /\ b_pc = "warmup"
  /\ \/ /\ b_runs' = Append(b_runs, [phase |-> "warmup", type |-> b_type])
        /\ b_pc' = WarmupNext(b_system, b_type).pc
        /\ b_type' = WarmupNext(b_system, b_type).type
        /\ UNCHANGED <<b_raised, b_exit, b_pool, b_results, b_files, b_json>>
     \/ Raises
  /\ UNCHANGED b_system
  /\ UNCHANGED exceptBench

\* results['metrics'][f'query_{query_type}'] = {...}: only the ParadeDB main keeps
\* the run results
Kept(sys, results, q) == IF sys = "paradedb" THEN [results EXCEPT ![q] = "measure"] ELSE results

\* the measured call of run_concurrent_queries and the per-query file written from
\* what it returned; after the last query type the ParadeDB main goes on to the
\* JSON, the Elasticsearch main ends
MeasuredRun ==
  /\ b_pc = "measure"
  /\ b_type \in BenchTypes(b_system)
  /\ \/ /\ b_runs' = Append(b_runs, [phase |-> "measure", type |-> b_type])
        /\ b_results' = Kept(b_system, b_results, b_type)
        /\ b_files' = [b_files EXCEPT ![b_type] = "measure"]
        /\ IF b_type < NTypes(b_system)
           THEN b_type' = b_type + 1 /\ UNCHANGED <<b_pc, b_exit>>
           ELSE IF b_system = "paradedb"
                THEN b_pc' = "json" /\ UNCHANGED <<b_type, b_exit>>
                ELSE b_pc' = "exited" /\ b_exit' = 0 /\ UNCHANGED b_type
        /\ UNCHANGED <<b_raised, b_pool, b_json>>
     \/ Raises
  /\ UNCHANGED b_system
  /\ UNCHANGED exceptBench

\* with open('/tmp/results.json', 'w') as f: json.dump(results, f, indent=2)
DumpJson ==
  /\ b_system = "paradedb"
  /\ b_pc = "json"
  /\ \/ /\ b_json' = [state |-> "fresh", entries |-> b_results, writes |-> b_json.writes + 1]
        /\ b_pc' = "closeall"
        /\ UNCHANGED <<b_type, b_raised, b_exit, b_pool, b_runs, b_results, b_files>>
     \/ Raises
  /\ UNCHANGED b_system
  /\ UNCHANGED exceptBench

\* finally: benchmark_pool.closeall(), and main ends with or without the exception
CloseAll ==
  /\ b_pc = "closeall"
  /\ b_pool' = "closed"
  /\ b_pc' = "exited"
  /\ b_exit' = IF b_raised THEN 1 ELSE 0
  /\ UNCHANGED <<b_system, b_type, b_raised, b_runs, b_results, b_files, b_json>>
  /\ UNCHANGED exceptBench

\* the process is killed from outside
Killed ==
  /\ b_pc \notin {"off", "exited"}
  /\ b_pc' = "exited"
  /\ b_exit' = 137
  /\ UNCHANGED <<b_system, b_type, b_raised, b_pool, b_runs, b_results, b_files, b_json>>
  /\ UNCHANGED exceptBench

NextBench ==
  \/ CreatePool
  \/ CountQuery
  \/ EsCount
  \/ Explain
  \/ WarmupRun
  \/ MeasuredRun
  \/ DumpJson
  \/ CloseAll
  \/ Killed

SpecBench == InitBench /\ [][NextBench]_vars

\* --------------------------------- the network calls of the workers in time
\* A worker sends its queries one after the other and waits for each answer;
\* time is counted in seconds. A query in k_silent is one the database never
\* answers. Only a call with a timeout has a clock running against it; a worker
\* in a call without one is blocked until the answer comes.
\* session.get(..., timeout=10) of run_query
CallTimeout == 10

\* Retry(total=3, ...) of the session's adapter
RetryTotal == 3

\* cursor.execute(query_sql) of run_single_query carries no timeout; the
\* connect_timeout=10 of the pool bounds the connecting only
HasTimeout(sys) == sys = "es"

CallWorkers == 1..k_concurrency

InitCall ==
  /\ k_system \in Systems
  /\ k_concurrency \in 1..MaxCallWorkers
  /\ k_calls \in 1..MaxCalls
  /\ k_silent \in {{}} \cup {{[worker |-> w, i |-> i]} : w \in 1..k_concurrency, i \in 1..k_calls}
  /\ k_idx = [w \in CallWorkers |-> 1]
  /\ k_call = [w \in CallWorkers |-> "idle"]
  /\ k_waited = [w \in CallWorkers |-> 0]
  /\ k_tries = [w \in CallWorkers |-> 0]
  /\ k_failed = 0
  /\ k_rpc = "running"
  /\ RunnerIdle /\ AssignIdle /\ RenderIdle /\ SessionIdle /\ MainIdle /\ LoadIdle /\ FileIdle /\ BenchIdle /\ PollIdle

\* the worker's place after the query at index i
AfterCall(i) == IF i < k_calls THEN "idle" ELSE "done"

\* cursor.execute(query_sql) / session.get(url, ...): the query is sent
CallSend(w) ==
  /\ k_rpc = "running"
  /\ k_call[w] = "idle"
  /\ k_call' = [k_call EXCEPT ![w] = "waiting"]
  /\ k_waited' = [k_waited EXCEPT ![w] = 0]
  /\ k_tries' = [k_tries EXCEPT ![w] = 0]
  /\ UNCHANGED <<k_system, k_concurrency, k_calls, k_silent, k_idx, k_failed, k_rpc>>
  /\ UNCHANGED exceptCall

\* the database answers the query
CallAnswer(w) ==
  /\ k_call[w] = "waiting"
  /\ [worker |-> w, i |-> k_idx[w]] \notin k_silent
  /\ k_call' = [k_call EXCEPT ![w] = AfterCall(k_idx[w])]
  /\ k_idx' = [k_idx EXCEPT ![w] = @ + 1]
  /\ UNCHANGED <<k_system, k_concurrency, k_calls, k_silent, k_waited, k_tries, k_failed, k_rpc>>
  /\ UNCHANGED exceptCall

\* a second of the call's timeout passes without an answer
CallWait(w) ==
  /\ HasTimeout(k_system)
  /\ k_call[w] = "waiting"
  /\ k_waited[w] < CallTimeout
  /\ k_waited' = [k_waited EXCEPT ![w] = @ + 1]
  /\ UNCHANGED <<k_system, k_concurrency, k_calls, k_silent, k_idx, k_call, k_tries, k_failed, k_rpc>>
  /\ UNCHANGED exceptCall

\* the timeout of the call expires: the adapter sends the request again while its
\* retries last, then the exception reaches run_query, which prints it and
\* returns the elapsed time
CallTimedOut(w) ==
  /\ HasTimeout(k_system)
  /\ k_call[w] = "waiting"
  /\ k_waited[w] >= CallTimeout
  /\ IF k_tries[w] < RetryTotal
     THEN /\ k_tries' = [k_tries EXCEPT ![w] = @ + 1]
          /\ k_waited' = [k_waited EXCEPT ![w] = 0]
          /\ UNCHANGED <<k_idx, k_call, k_failed>>
     ELSE /\ k_failed' = k_failed + 1
          /\ k_call' = [k_call EXCEPT ![w] = AfterCall(k_idx[w])]
          /\ k_idx' = [k_idx EXCEPT ![w] = @ + 1]
          /\ UNCHANGED <<k_tries, k_waited>>
  /\ UNCHANGED <<k_system, k_concurrency, k_calls, k_silent, k_rpc>>
  /\ UNCHANGED exceptCall

\* every worker_task has returned: the executor block ends and the runner returns
CallJoin ==
  /\ k_rpc = "running"
  /\ \A w \in CallWorkers : k_call[w] = "done"
  /\ k_rpc' = "returned"
  /\ UNCHANGED <<k_system, k_concurrency, k_calls, k_silent, k_idx, k_call, k_waited, k_tries, k_failed>>
  /\ UNCHANGED exceptCall

NextCall ==
  \/ \E w \in CallWorkers : CallSend(w)
  \/ \E w \in CallWorkers : CallAnswer(w)
  \/ \E w \in CallWorkers : CallWait(w)
  \/ \E w \in CallWorkers : CallTimedOut(w)
  \/ CallJoin

\* the threads are scheduled and the clock runs: a step that can be taken is
\* taken in the end
SpecCall == InitCall /\ [][NextCall]_vars /\ WF_vars(NextCall)

\* ------------------------------------------ the polling loops on their own
\* wait_for_database and wait_for_elasticsearch count their attempts
\* (`while attempt < max_attempts`); the two waits inside create_index, for the
\* index build and for VACUUM, are `while True` loops that keep no count.
PollLoops == {"database", "elasticsearch", "index", "vacuum"}

Counted(loop) == loop \in {"database", "elasticsearch"}

InitPoll ==
  /\ p_loop \in PollLoops
  /\ p_pc = "poll"
  /\ p_attempt = 0
  /\ RunnerIdle /\ AssignIdle /\ RenderIdle /\ SessionIdle /\ MainIdle /\ LoadIdle /\ FileIdle /\ BenchIdle /\ CallIdle

\* the loop's condition holds: the target is asked, and it is ready (return True,
\* break), or not yet, or - inside create_index, where nothing catches it - the
\* query raises
Poll ==
  /\ p_pc = "poll"
  /\ Counted(p_loop) => MayAttempt(p_attempt)
  /\ \/ p_pc' = "ready"
     \/ p_pc' = "sleep"
     \/ ~Counted(p_loop) /\ p_pc' = "raised"
  /\ UNCHANGED <<p_loop, p_attempt>>
  /\ UNCHANGED exceptPoll

\* time.sleep(2); attempt += 1, or time.sleep(1) of the loops that keep no count
PollSleep ==
  /\ p_pc = "sleep"
  /\ p_pc' = "poll"
  /\ p_attempt' = IF Counted(p_loop) THEN p_attempt + 1 ELSE p_attempt
  /\ UNCHANGED p_loop
  /\ UNCHANGED exceptPoll

\* the loop's condition fails: return False
PollGiveUp ==
  /\ p_pc = "poll"
  /\ Counted(p_loop)
  /\ ~MayAttempt(p_attempt)
  /\ p_pc' = "gaveup"
  /\ UNCHANGED <<p_loop, p_attempt>>
  /\ UNCHANGED exceptPoll

NextPoll ==
  \/ Poll
  \/ PollSleep
  \/ PollGiveUp

\* the process keeps running: a loop that can take a step takes one in the end
SpecPoll == InitPoll /\ [][NextPoll]_vars /\ WF_vars(NextPoll)

\* ------------------------------------------------------------- claims
RangeSet(r) == r.start..r.end

AllAssigned == a_concurrency > 0 /\ Len(a_ranges) = a_concurrency

\* C1: for transactions >= 1 and concurrency >= 1 the index ranges of the workers
\* 1..concurrency are pairwise disjoint and their union is exactly 1..transactions.
C1_RangesPartition ==
  (AllAssigned /\ a_transactions >= 1) =>
    /\ \A v, w \in 1..a_concurrency : v # w => RangeSet(a_ranges[v]) \cap RangeSet(a_ranges[w]) = {}
    /\ UNION {RangeSet(a_ranges[w]) : w \in 1..a_concurrency} = 1..a_transactions

\* ten transactions over three workers are all assigned, the last range being shorter
C1_Witness ==
  /\ AllAssigned /\ a_transactions = 10 /\ a_concurrency = 3
  /\ a_ranges[3].end - a_ranges[3].start < a_ranges[1].end - a_ranges[1].start

\* C5: the term selected for the 1-based index i from a list of length L is
\* terms[(i-1) mod L], each list of a query type being indexed by its own length,
\* so that the indices i and i+L select the same term.
C5_RoundRobin ==
  \A i \in 1..Len(r_queries) : \A k \in 1..Len(r_lists) :
    LET L == Len(r_lists[k]) IN
      /\ r_queries[i].terms[k] = r_lists[k][((i - 1) % L) + 1]
      /\ i + L <= Len(r_queries) => r_queries[i + L].terms[k] = r_queries[i].terms[k]

\* a query type with term lists of different lengths has wrapped around both
C5_Witness ==
  /\ Len(r_lists) >= 2
  /\ Len(r_lists[1]) # Len(r_lists[2])
  /\ Len(r_queries) > Len(r_lists[1]) + Len(r_lists[2])
  /\ r_queries[1 + Len(r_lists[1])].terms[1] = r_queries[1].terms[1]
  /\ r_queries[1 + Len(r_lists[1])].terms[2] # r_queries[1].terms[2]


\* ---- the runner
RECURSIVE SumOver(_, _)
SumOver(f, S) == IF S = {} THEN 0 ELSE LET x == CHOOSE y \in S : TRUE IN f[x] + SumOver(f, S \ {x})

Returned == rpc = "returned"

Ended == rpc \in {"returned", "raised"}

\* how often index i was executed, and by which workers
TimesExecuted(i) == SumOver([e \in BagToSet(log) |-> CopiesIn(e, log)], {e \in BagToSet(log) : e.i = i})

ExecutedBy(i) == {e.worker : e \in {d \in BagToSet(log) : d.i = i}}

\* C2: whenever the runner returns a result, every index 1..transactions was
\* executed exactly once, by exactly one worker, as a query of the requested type,
\* nothing else was executed, and the summed per-worker counts equal transactions.
C2_AllExecutedOnce ==
  Returned =>
    /\ \A i \in 1..transactions : TimesExecuted(i) = 1 /\ Cardinality(ExecutedBy(i)) = 1
    /\ \A e \in BagToSet(log) : e.i \in 1..transactions /\ e.worker \in Workers /\ e.query.qt = query_type
    /\ BagCardinality(log) = transactions
    /\ completed_transactions = transactions
    /\ SumOver(worker_transactions, Workers) = transactions

\* three transactions spread unevenly over two workers have all been executed
C2_Witness ==
  /\ Returned /\ transactions = 3 /\ concurrency = 2
  /\ worker_transactions[1] = 2 /\ worker_transactions[2] = 1

\* C3: for transactions >= 1 the returned average_latency times transactions equals
\* the sum of the per-worker latency sums, which is the sum of the latency measured
\* for every query executed by any worker.
C3_AverageLatency ==
  (Returned /\ transactions >= 1) =>
    /\ result.avg_latency.den > 0
    /\ result.avg_latency.num * transactions = SumOver(worker_time, Workers) * result.avg_latency.den
    /\ SumOver(worker_time, Workers) = measured

\* two workers both measured latency and the average is no whole number of ticks
C3_Witness ==
  /\ Returned /\ transactions = 2 /\ concurrency = 2
  /\ worker_time[1] > 0 /\ worker_time[2] > 0
  /\ measured = 3

\* C4 as stated: with transactions = 0 no query is executed, no division by zero
\* is raised, average_latency is 0 and the report file is written with zero values.
C4_ZeroValuesReport ==
  transactions = 0 =>
    /\ log = EmptyBag
    /\ error # "ZeroDivisionError"
    /\ Returned => result.avg_latency.num = 0
    /\ (Returned /\ ~report.written) => ENABLED WriteReport
    /\ report.written => report.average = 0 /\ report.total = 0

\* C4 amended: with transactions = 0 no query is executed, no division by zero is
\* raised, average_latency is 0 and, when the runner returns, the report file is
\* written with an average latency of zero and the measured wall time of the empty
\* parallel phase, which is not zero.
C4_ZeroTransactions ==
  transactions = 0 =>
    /\ log = EmptyBag
    /\ error # "ZeroDivisionError"
    /\ Returned => result.avg_latency.num = 0 /\ result.wall_time > 0
    /\ (Returned /\ ~report.written) => ENABLED WriteReport
    /\ report.written => report.average = 0 /\ report.total = result.wall_time

\* the report of a run of zero transactions with two workers has been written
C4_Witness == transactions = 0 /\ concurrency = 2 /\ report.written /\ report.total > 0

\* the terms of list k that some issued query carries
TermsIssued(k) == {e.query.terms[k] : e \in BagToSet(log)}

TermsOf(k) == {config[k][j] : j \in 1..Len(config[k])}

\* C6 as stated: whatever the transaction count, a completed run issues at least one
\* query for every term of every term list of the query type.
C6_FullCoverageAlways ==
  Returned => \A k \in 1..Len(config) : TermsIssued(k) = TermsOf(k)

\* C6 amended: a completed run issues at least one query for every term of a term
\* list whose length is at most `transactions`; of a longer list it issues exactly
\* the first `transactions` terms.
C6_FullCoverage ==
  Returned => \A k \in 1..Len(config) :
    IF transactions >= Len(config[k])
    THEN TermsIssued(k) = TermsOf(k)
    ELSE TermsIssued(k) = {config[k][j] : j \in 1..transactions}

\* a complex query (two lists of two and three terms) run three times covers both
C6_Witness ==
  /\ Returned /\ query_type = 3 /\ system = "paradedb" /\ transactions = 3
  /\ Len(config[1]) = 2 /\ Len(config[2]) = 3
  /\ TermsIssued(2) = TermsOf(2)

\* the multiset of queries issued so far, and the one the triple calls for
Issued(q) == SumOver([e \in BagToSet(log) |-> CopiesIn(e, log)], {e \in BagToSet(log) : e.query = q})

Expected(q) == Cardinality({i \in 1..transactions : RenderQuery(query_type, config, i) = q})

QueriesInPlay == {e.query : e \in BagToSet(log)} \cup {RenderQuery(query_type, config, i) : i \in 1..transactions}

\* no worker failed on its cursor or its connection (only queries may have failed)
CursorsSound == \A w \in Workers : pending[w] \in {"none", "DatabaseError"}

C8_UnknownTypeFailsFast ==
  query_type \notin DOMAIN query_configs =>
    /\ rpc \in {"off", "called", "raised"}
    /\ rpc = "raised" => error = "KeyError"
    /\ rpc = "called" => ENABLED StartRun
    /\ \A w \in Workers : wpc[w] = "idle" /\ ~held[w]
    /\ pool_used = {} /\ log = EmptyBag /\ ~report.written

\* the Elasticsearch runner was asked for query type 4, which only ParadeDB has
C8_Witness == system = "es" /\ query_type = 4 /\ rpc = "raised" /\ error = "KeyError"

\* C9: every connection a ParadeDB worker checked out is back in the pool when the
\* worker's task has ended, however it ended.
C9_ConnectionReturned ==
  \A w \in Workers : Finished(w) => ~held[w] /\ w \notin pool_used

\* C10: a pooled connection is held by at most one worker (every connection the
\* pool has opened is either free, or held by exactly one worker, or closed), and
\* the connections checked out at once are never more than `concurrency`, so never
\* more than the pool maximum of 2 * concurrency.
C10_PoolDiscipline ==
  /\ pool_used = {w \in Workers : held[w]}
  /\ pool + Cardinality(pool_used) + pool_closed = pool_created
  /\ pool >= 0
  /\ Cardinality(pool_used) <= concurrency
  /\ Cardinality(pool_used) <= MaxConn

\* both workers hold a connection at once although the second has no index to run
C10_Witness ==
  /\ concurrency = 2 /\ transactions = 1
  /\ held[1] /\ held[2] /\ pool = 0
  /\ StartIdx(2, transactions, concurrency) > EndIdx(2, transactions, concurrency)

\* the connections in use by the workers that share the session
InUse == {w \in 1..s_concurrency : s_conn[w] # "none"}

\* C11: a worker that requests a connection while every connection of the pool is
\* checked out waits for one to be returned: no connection is ever opened beside
\* the pool, and never more than the pool's size are in use at once.
C11_ExhaustedPoolBlocks ==
  /\ \A w \in 1..s_concurrency : s_conn[w] # "outside"
  /\ Cardinality(InUse) <= PoolMaxsize

\* the indices of worker w that have been issued
IssuedBy(w) == {e.i : e \in {d \in BagToSet(log) : d.worker = w}}

\* the result a returned run hands to its caller holds a record of failed queries
ResultRecordsFailure == "failed" \in DOMAIN result

\* C12: when a query failed during a run, the runner either raises or returns a
\* result that records the failure; it never returns a result without a trace of
\* the failure while the failed query was counted and its time added.
C12_FailureNotSilent ==
  (Returned /\ failed_queries > 0) => ResultRecordsFailure

\* C13: a query failure in one worker neither stops nor cancels a sibling: when the
\* run is over, every worker that did not fail itself has ended normally and has
\* executed every index of its range.
C13_SiblingsUnaffected ==
  (Ended /\ config # <<>>) =>
    \A w \in Workers : pending[w] = "none" =>
      /\ wpc[w] = "done"
      /\ IssuedBy(w) = WorkerRange(w, transactions, concurrency)
      /\ worker_transactions[w] = Cardinality(WorkerRange(w, transactions, concurrency))

\* the only query of the second ParadeDB worker failed and the run raised, the
\* first worker having executed both of its indices
C13_Witness ==
  /\ rpc = "raised" /\ error = "DatabaseError"
  /\ concurrency = 2 /\ transactions = 3
  /\ pending[2] = "DatabaseError" /\ pending[1] = "none"
  /\ worker_transactions[1] = 2 /\ IssuedBy(1) = {1, 2}

SameFraction(a, b) == a.num * b.den = b.num * a.den

\* C20: every TPS reported for a query type (the one the runner prints, the tps
\* field of the aggregate JSON, the one the plot generator shows for the written
\* per-query file) equals transactions / wall_time of the measured run.
C20_TpsIsTransactionsPerWallTime ==
  report.written =>
    LET tps == [num |-> transactions, den |-> result.wall_time] IN
      /\ SameFraction(RunnerTps(transactions, result.wall_time), tps)
      /\ system = "paradedb" => SameFraction(JsonTps(transactions, result.wall_time), tps)
      /\ report.average > 0 => SameFraction(PlotTps(report.average), tps)

\* the stages of the setup/load/index pipeline, in their order
PipelineStages(sys) ==
  IF sys = "paradedb" THEN <<"setup", "table", "load", "index">> ELSE <<"setup", "load">>

IsPipelineStage(stage) == \E k \in 1..Len(PipelineStages(m_system)) : PipelineStages(m_system)[k] = stage

FreshFiles == {f \in DOMAIN m_files : m_files[f] \notin {"absent", "stale"}}

\* C14: the wait-for-ready loop makes at most 30 attempts and sleeps 2 seconds
\* after each failed one; the first successful attempt is the last one; after 30
\* failed attempts nothing is left but to exit, and the process then exits with a
\* status that is not zero, no setup, load, index or query step having run.
C14_BoundedWait ==
  /\ m_tries <= MaxAttempts
  /\ m_slept = SleepSeconds * m_attempt
  /\ m_tries \in {m_attempt, m_attempt + 1}
  /\ (m_tries = m_attempt + 1) => m_pc # "wait"
  /\ (m_pc \notin {"off", "wait", "exited"}) => m_tries = m_attempt + 1
  /\ (m_pc = "wait" /\ m_attempt = MaxAttempts) => ENABLED WaitGiveUp /\ ~ENABLED WaitAttempt
  /\ (m_pc # "off" /\ m_tries = m_attempt /\ m_attempt = MaxAttempts) =>
       /\ m_pc \in {"wait", "exited"}
       /\ m_pc = "exited" => m_exit # 0
       /\ m_completed = <<>> /\ m_failed = {} /\ m_queries = 0 /\ FreshFiles = {}

\* thirty attempts have failed, sixty seconds were slept, the process has exited with 1
C14_Witness ==
  /\ m_pc = "exited" /\ m_exit = 1
  /\ m_attempt = MaxAttempts /\ m_tries = MaxAttempts /\ m_slept = 60

\* C15: no warmup or benchmark run starts unless the stages of the pipeline have
\* each returned successfully, in their order, and a failure in any of them ends
\* the process with a status that is not zero before any such run.
C15_SetupBeforeQueries ==
  /\ m_queries > 0 => SelectSeq(m_completed, IsPipelineStage) = PipelineStages(m_system)
  /\ \A stage \in m_failed : IsPipelineStage(stage) =>
       m_pc = "exited" /\ m_exit # 0 /\ m_queries = 0

\* C17 as stated: every completed stage of the pipeline has its own timing file,
\* written by this run before the next stage started.
C17_EveryStageTimed ==
  \A k \in 1..Len(m_completed) :
    IsPipelineStage(m_completed[k]) =>
      /\ TimingFile(m_system, m_completed[k]) # "none"
      /\ m_files[TimingFile(m_system, m_completed[k])] = m_completed[k]

\* C17 amended: every completed stage that is timed (data loading and index
\* creation of ParadeDB, index setup and data loading of Elasticsearch) has its
\* own timing file, written by this run before the next stage started and holding
\* that stage's duration, also when the process was killed afterwards; the schema
\* setup of ParadeDB (setup_database, create_table) writes no timing file.
C17_TimedStages ==
  /\ \A k \in 1..Len(m_completed) :
       TimingFile(m_system, m_completed[k]) # "none" =>
         m_files[TimingFile(m_system, m_completed[k])] = m_completed[k]
  /\ \A stage \in {"setup", "table"} : TimingFile("paradedb", stage) = "none"

\* the ParadeDB process was killed after load_data: its time is on file, the index
\* time file is still the one an earlier run left
C17_Witness ==
  /\ m_system = "paradedb" /\ m_pc = "exited" /\ m_exit = 137
  /\ Len(m_completed) = 4 /\ m_completed[4] = "load"
  /\ m_files["data_loading_time.txt"] = "load"
  /\ m_files["index_creation_time.txt"] = "stale"

\* C16 as stated: in a bulk load a line that is not a JSON document is skipped and
\* logged, it never makes the load fail, it is never put into a request to the
\* target store, and when the load is done every sound line that was read is in the
\* store.
C16_MalformedSkipped ==
  /\ l_pc = "failed" => ~HasJunk(l_documents)
  /\ \A k \in l_sent : l_lines[k] # "junk"
  /\ l_pc \in {"read", "final", "done"} =>
       \A k \in 1..l_pos : l_lines[k] = "junk" => k \in l_skipped
  /\ l_pc = "done" =>
       \A k \in 1..l_pos : l_lines[k] # "junk" => k \in Range(l_store)

\* C18: when the pipeline has been run twice in sequence on the same file, the
\* store holds as many records after the second run as after the first; a
\* completed run leaves exactly the records it loaded itself, each once, and
\* nothing that was in the target before.
C18_SetupIdempotent ==
  /\ (l_run = 2 /\ l_pc = "done") => Len(l_store) = l_first
  /\ l_pc = "done" =>
       /\ Range(l_store) \subseteq 1..l_pos
       /\ Cardinality(Range(l_store)) = Len(l_store)

\* the second run on a file of at least two documents is done, over a target that
\* held the first run's records when it started
C18_Witness ==
  /\ l_run = 2 /\ l_pc = "done"
  /\ l_first >= 2
  /\ Len(l_store) = l_first

\* a text of the shape <digits>.<six digits>, without needless zeros in front
IsFixed6(x) ==
  /\ Len(x) >= 8
  /\ x[Len(x) - 6] = "."
  /\ \A k \in 1..Len(x) : k # Len(x) - 6 => IsDigit(x[k])
  /\ Len(x) > 8 => x[1] # "0"

\* the line is '<label> for Query <n>: <x>s' for the query of the run
IsReportLine(line, label) ==
  LET head == label \o ForQuery \o Decimal(f_query) \o <<":", " ">> IN
    /\ StartsWith(line, head)
    /\ Len(line) > Len(head) + 1
    /\ line[Len(line)] = "s"
    /\ IsFixed6(SubSeq(line, Len(head) + 1, Len(line) - 1))

\* the time x, given in millionths of a second, as the file states it
Written(x) == [num |-> Format6(x), den |-> 1000000]

\* C19: the per-query file that main wrote is exactly the two lines 'Average
\* Latency for Query <n>: <x>s' and 'Wall time for Query <n>: <y>s', each ended by
\* a newline, and parse_time_file on that file returns as average the written
\* average latency and as total the written wall time, to six decimals.
C19_ReportRoundTrip ==
  /\ f_written =>
       LET lines == Split(f_content, "\n") IN
         /\ Len(lines) = 3 /\ lines[3] = <<>>
         /\ IsReportLine(lines[1], AverageLatency)
         /\ IsReportLine(lines[2], WallTime)
         /\ ParseTimeFileOf(f_written, f_content).status = "ok"
  /\ f_times.status \notin {"unparsed", "None"} =>
       /\ f_times.status = "ok"
       /\ f_times.average = Written(f_avg)
       /\ f_times.total = Written(f_total)

\* the file of query 10 with an average of 12345678/3 millionths, written as
\* 4.115226, and a wall time of 100.000005 s has been written and parsed
C19_Witness ==
  /\ f_written /\ f_times.status = "ok"
  /\ f_query = 10
  /\ f_avg = [num |-> 12345678, den |-> 3]
  /\ f_total = [num |-> 100000005, den |-> 1]
  /\ f_times.average = [num |-> 4115226, den |-> 1000000]
  /\ f_times.total = [num |-> 100000005, den |-> 1000000]

\* C21 as stated: when a run of at least one query has returned, its wall_time is
\* at least the largest latency sum of a single worker and at most the sum of the
\* latency sums of all workers.
C21_WallTimeBounds ==
  (Returned /\ transactions >= 1) =>
    /\ \A w \in Workers : worker_time[w] <= result.wall_time
    /\ result.wall_time <= SumOver(worker_time, Workers)

\* C21 amended: when a run of at least one query has returned, its wall_time is at
\* least the largest latency sum of a single worker; it has no upper bound in the
\* latency sums, because it also spans the time the workers spend outside their
\* queries (fetching a connection, opening a cursor, waiting to be scheduled).
C21_WallTimeAtLeastSlowest ==
  (Returned /\ transactions >= 1) =>
    /\ \A w \in Workers : worker_time[w] <= result.wall_time
    /\ result.wall_time >= 1

\* two workers have run three queries, each taking its time, and the wall_time
\* returned is longer than all their latency sums together
C21_Witness ==
  /\ Returned /\ concurrency = 2 /\ transactions = 3
  /\ \A w \in Workers : worker_time[w] >= 1
  /\ result.wall_time > SumOver(worker_time, Workers)

\* the run of query type q in the given phase has returned
HasRun(phase, q) == \E k \in 1..Len(b_runs) : b_runs[k] = [phase |-> phase, type |-> q]

\* C22 as stated: a benchmark run that completes has written the aggregate JSON
\* exactly once; the JSON is never written before the measured runs of all query
\* types have returned, and it then holds an entry from the measured run of every
\* query type, so a run that ends earlier has written none.
C22_JsonOnceAndComplete ==
  /\ b_json.writes <= 1
  /\ b_json.writes >= 1 =>
       /\ b_json.state = "fresh"
       /\ \A q \in BenchTypes(b_system) : HasRun("measure", q) /\ b_json.entries[q] = "measure"
  /\ (b_pc = "exited" /\ b_exit = 0) => b_json.writes = 1

\* C23: no measured run has returned before the warmup runs of all query types
\* have, and nothing that a warmup run returned is in a per-query file, in the
\* results kept for the JSON or in the JSON.
C23_WarmupDiscarded ==
  /\ \A k \in 1..Len(b_runs) :
       b_runs[k].phase = "measure" =>
         \A q \in BenchTypes(b_system) :
           \E j \in 1..(k - 1) : b_runs[j] = [phase |-> "warmup", type |-> q]
  /\ \A q \in BenchTypes(b_system) :
       /\ b_files[q] # "warmup"
       /\ b_results[q] # "warmup"
       /\ b_json.entries[q] # "warmup"
  /\ (b_pc = "exited" /\ b_exit = 0) =>
       \A q \in BenchTypes(b_system) : b_files[q] = "measure"

\* the ParadeDB main has ended normally: six warmup runs, then six measured runs,
\* every per-query file and every JSON entry from a measured run
C23_Witness ==
  /\ b_system = "paradedb" /\ b_pc = "exited" /\ b_exit = 0
  /\ Len(b_runs) = 12
  /\ b_runs[6].phase = "warmup" /\ b_runs[7] = [phase |-> "measure", type |-> 1]
  /\ \A q \in BenchTypes(b_system) : b_files[q] = "measure" /\ b_json.entries[q] = "measure"

\* C28 as stated: when the ParadeDB main has ended on its own, normally or by an
\* exception, after create_connection_pool had returned, closeall has been called
\* on the pool; and the pool is not closed while main is still at work.
C28_PoolAlwaysClosed ==
  /\ (b_system = "paradedb" /\ b_pc = "exited" /\ b_exit \in {0, 1} /\ b_pool # "none") =>
       b_pool = "closed"
  /\ b_pc \notin {"off", "exited"} => b_pool # "closed"

\* C24 as stated: when the database never answers one of the queries, the runner
\* still returns in the end, with that call counted among the failed ones; and a
\* worker that is ready to send its next query is never held up by another
\* worker's call.
C24_TimeoutsBoundTheRun ==
  /\ [](\A w \in CallWorkers : (k_rpc = "running" /\ k_call[w] = "idle") => ENABLED CallSend(w))
  /\ [](k_rpc = "returned" => k_failed >= Cardinality(k_silent))
  /\ <>(k_rpc = "returned")

\* ceil(t / c): the least n with n * c >= t
CeilDiv(t, c) == CHOOSE n \in 0..t : n * c >= t /\ \A m \in 0..(n - 1) : m * c < t

\* the iterations of `for i in range(start_idx, end_idx + 1)`
Iterations(r) == Cardinality(RangeSet(r))

\* C25: with per_worker = ceil(transactions / concurrency), worker w gets the
\* indices from (w-1)*per_worker + 1 to min(w*per_worker, transactions); a worker
\* whose start lies beyond `transactions` runs no iteration, none runs more than
\* per_worker, and only the last worker that runs any may run fewer; ten
\* transactions over three workers give [1,4], [5,8], [9,10].
C25_AssignedRanges ==
  LET per_worker == CeilDiv(a_transactions, a_concurrency) IN
    /\ \A w \in 1..Len(a_ranges) :
         /\ a_ranges[w].start = (w - 1) * per_worker + 1
         /\ a_ranges[w].end = (IF w * per_worker <= a_transactions THEN w * per_worker ELSE a_transactions)
         /\ a_ranges[w].start > a_transactions => Iterations(a_ranges[w]) = 0
         /\ Iterations(a_ranges[w]) <= per_worker
         /\ (Iterations(a_ranges[w]) < per_worker /\ Iterations(a_ranges[w]) > 0) =>
              \A v \in (w + 1)..Len(a_ranges) : Iterations(a_ranges[v]) = 0
         /\ Iterations(a_ranges[w]) = 0 => a_ranges[w].start > a_transactions
    /\ (AllAssigned /\ a_transactions = 10 /\ a_concurrency = 3) =>
         a_ranges = <<[start |-> 1, end |-> 4], [start |-> 5, end |-> 8], [start |-> 9, end |-> 10]>>

\* five transactions over four workers: two each for the first two, one for the
\* third, and the fourth, whose start is 7, runs none
C25_Witness ==
  /\ AllAssigned /\ a_transactions = 5 /\ a_concurrency = 4
  /\ Iterations(a_ranges[3]) = 1
  /\ a_ranges[4].start = 7 /\ Iterations(a_ranges[4]) = 0

\* C26: the runner reads the end clock and computes the average in a step in which
\* every worker task has ended, and while a result stands returned no worker is
\* running: each has returned and its sums have been read.
C26_JoinBarrier ==
  /\ [][(result' # result \/ (rpc = "running" /\ rpc' = "returned")) =>
          \A w \in Workers : Finished(w) /\ w \in collected]_vars
  /\ [](Returned => \A w \in Workers : wpc[w] = "done" /\ ~held[w])

\* two workers, the first with two queries and the second with one, have both
\* ended and the result has been returned
C26_Witness ==
  /\ Returned /\ concurrency = 2 /\ transactions = 3
  /\ worker_transactions[1] = 2 /\ worker_transactions[2] = 1
  /\ wpc[1] = "done" /\ wpc[2] = "done"

\* C27: a step that changes the latency sum or the transaction count of a worker
\* is a step of that worker's own query and changes neither another worker's
\* values nor the coordinator's totals; the totals change only when the
\* coordinator reads one finished worker's values and adds them; and whatever the
\* order in which the workers ended, the totals of a returned run are the sums
\* over all workers.
C27_WorkersShareNothing ==
  /\ [][\A w \in Workers :
          (worker_time'[w] # worker_time[w] \/ worker_transactions'[w] # worker_transactions[w]) =>
            /\ wpc[w] = "exec"
            /\ \A v \in Workers \ {w} :
                 worker_time'[v] = worker_time[v] /\ worker_transactions'[v] = worker_transactions[v]
            /\ UNCHANGED <<total_latency, completed_transactions>>]_vars
  /\ [][(total_latency' # total_latency \/ completed_transactions' # completed_transactions) =>
          /\ \E w \in Workers \ collected :
               /\ collected' = collected \cup {w}
               /\ total_latency' = total_latency + worker_time[w]
               /\ completed_transactions' = completed_transactions + worker_transactions[w]
          /\ UNCHANGED <<worker_time, worker_transactions>>]_vars
  /\ [](Returned =>
          /\ total_latency = SumOver(worker_time, Workers)
          /\ completed_transactions = SumOver(worker_transactions, Workers))

\* the second worker has ended first: its values are the totals so far, while the
\* first worker is still at its queries
C27_Witness ==
  /\ rpc = "running" /\ concurrency = 2
  /\ collected = {2}
  /\ wpc[1] \in {"loop", "exec"} /\ worker_transactions[1] >= 1
  /\ total_latency = worker_time[2] /\ total_latency >= 1

\* C29 as stated: every polling loop asks at most a fixed number of times and is
\* over in the end: the target was ready, the query raised, or the loop gave up.
C29_PollingBounded ==
  /\ [](p_attempt <= MaxAttempts)
  /\ <>(p_pc \in {"ready", "gaveup", "raised"})

\* the places of the lines among the first n that are JSON documents, in file order
WellFormed(n) == SelectSeq([k \in 1..n |-> k], LAMBDA k : l_lines[k] # "junk")

\* C30 as stated: the ParadeDB load_data never fails over a well-formed record;
\* it accepts no more than expected_size records and stops reading as soon as it
\* has that many; and when it is done the table holds every well-formed record
\* among the lines read, once and in file order, min(expected_size, well-formed
\* lines of the file) in number.
C30_LoadsEveryRecordOnce ==
  l_system = "paradedb" =>
    /\ l_pc # "failed"
    /\ l_count <= l_expected
    /\ l_pc \in {"final", "done"} => (l_count = l_expected \/ l_pos = Len(l_lines))
    /\ l_pc = "done" =>
         /\ l_store = WellFormed(l_pos)
         /\ Len(l_store) = Min(l_expected, Len(WellFormed(Len(l_lines))))

====
